---- MODULE Spec2Model ----
(***************************************************************************)
(* A model of the NHL timeline generators of this repository.              *)
(*                                                                         *)
(*   - v1/timelines/generate_timeline.py: the scan over the play-by-play   *)
(*     log with its penalty ledger (PenaltyTracker), coincidental-penalty  *)
(*     resolution, early release on goals, delayed-penalty sequences and   *)
(*     synthetic penalty-expired entries.                                  *)
(*   - v2/timelines/generate_timeline.py: the per-second timeline built    *)
(*     from the shift files, and its time-on-ice validation.               *)
(*                                                                         *)
(* Representation.  A Python "MM:SS" string is the pair <<MM, SS>> that    *)
(* split(":") and int() make of it.  A situation code is the sequence of   *)
(* its characters, <<"1","5","5","1">> for "1551".  Python's None is the   *)
(* empty sequence; a value that may be None and is compared with it (a     *)
(* penalty's duration, the call's locals, an entry's penaltyExpiration) is *)
(* the one-element sequence of the value.  A dict the code iterates in     *)
(* insertion order is a sequence.                                          *)
(***************************************************************************)
EXTENDS Integers, Sequences, FiniteSets, TLC

VARIABLES
    \* both generators
    plays,                        \* the play-by-play events of the game
    timeline,                     \* the timeline being built (v1: the event
                                  \* entries, v2: the per-second entries)
    \* v1/timelines/generate_timeline.py: generate_timeline
    i,                            \* index of the event the scan is at (1-based)
    tracker,                      \* the PenaltyTracker
    previous_situation,
    in_delayed_penalty_sequence,
    delayed_penalty_logged,
    processed_penalty_timestamps,
    resolution,                   \* locals of the last process_penalties_at_time call
    \* v2/timelines/generate_timeline.py: process_game
    home_shifts,                  \* the home team's shift file
    away_shifts,                  \* the away team's shift file
    boxscore,
    stage,                        \* where process_game is
    game_info,
    validate,                     \* process_game's validate argument
    validation,                   \* what validate_toi returned
    returned,                     \* what process_game returned
    written,                      \* the output files written
    \* a call of one of the pure functions
    call_args,                    \* the arguments of the call
    call_result,                  \* what the call returned, once it has
    \* v2/timelines/generate_timeline.py: main, batch mode
    batch,                        \* the locals of main and the exit status
    \* v2/orchestrator/state.py: PipelineState
    pipeline_state                \* self._data

sharedVars == <<plays, timeline>>

scanVars == <<i, tracker, previous_situation,
              in_delayed_penalty_sequence, delayed_penalty_logged,
              processed_penalty_timestamps, resolution>>

gameVars == <<home_shifts, away_shifts, boxscore, stage, game_info,
              validate, validation, returned, written>>

callVars == <<call_args, call_result>>

driverVars == <<batch, pipeline_state>>

vars == <<sharedVars, scanVars, gameVars, callVars, driverVars>>

None == <<>>

Some(v) == <<v>>

\* ------------------------------------------------------------------ bounds
MaxEvents == 3      \* longest event log of the scan specification
MaxGroup == 3       \* most penalty events at one timestamp (SpecResolve)
MaxSkaters == 7     \* most skaters of the home shift file with the same shift (SpecGame)

\* the highest game number of a batch
MaxGames == 3

\* ------------------------------------------------------------ small helpers
Min(S) == CHOOSE x \in S : \A y \in S : x <= y

Max2(a, b) == IF a >= b THEN a ELSE b

Min2(a, b) == IF a <= b THEN a ELSE b

Range(s) == {s[k] : k \in DOMAIN s}

Max(S) == CHOOSE x \in S : \A y \in S : x >= y

\* sorted(S) of a set of ints
RECURSIVE Sorted(_)
Sorted(S) == IF S = {} THEN <<>> ELSE <<Min(S)>> \o Sorted(S \ {Min(S)})

DigitChar(d) ==
    CASE d = 0 -> "0" [] d = 1 -> "1" [] d = 2 -> "2" [] d = 3 -> "3"
      [] d = 4 -> "4" [] d = 5 -> "5" [] d = 6 -> "6" [] d = 7 -> "7"
      [] d = 8 -> "8" [] d = 9 -> "9"

\* f"{n}" of an int: its decimal digits, after "-" when negative
RECURSIVE IntToStr(_)
IntToStr(n) ==
    IF n < 0 THEN <<"-">> \o IntToStr(0 - n)
    ELSE IF n < 10 THEN <<DigitChar(n)>>
    ELSE IntToStr(n \div 10) \o <<DigitChar(n % 10)>>

\* ====================================================================
\* v1/timelines/generate_timeline.py
\* ====================================================================

\* ------------------------------------------------------- time conversion
time_to_seconds(time_str) ==
    IF time_str = None \/ time_str = <<0, 0>> THEN 0
    ELSE time_str[1] * 60 + time_str[2]

seconds_to_time(seconds) == <<seconds \div 60, seconds % 60>>

calculate_game_seconds(period, seconds_into_period) ==
    (period - 1) * 1200 + seconds_into_period

game_seconds_to_period_time(game_seconds) ==
    <<(game_seconds \div 1200) + 1, game_seconds % 1200>>

\* ------------------------------------------------------- situation code
\* a variant that writes the home fields first
calculate_situation_code_home_first(home_penalties, away_penalties, home_goalie, away_goalie) ==
    LET home_skaters == Max2(3, 5 - home_penalties)
        away_skaters == Max2(3, 5 - away_penalties)
        h_goalie == IF home_goalie THEN 1 ELSE 0
        a_goalie == IF away_goalie THEN 1 ELSE 0
    IN  IntToStr(h_goalie) \o IntToStr(home_skaters)
          \o IntToStr(away_skaters) \o IntToStr(a_goalie)

calculate_situation_code(home_penalties, away_penalties, home_goalie, away_goalie) ==
    LET home_skaters == Max2(3, 5 - home_penalties)
        away_skaters == Max2(3, 5 - away_penalties)
        h_goalie == IF home_goalie THEN 1 ELSE 0
        a_goalie == IF away_goalie THEN 1 ELSE 0
    IN  IntToStr(a_goalie) \o IntToStr(away_skaters)
          \o IntToStr(home_skaters) \o IntToStr(h_goalie)

\* ------------------------------------------------------- PenaltyTracker
PenaltyTracker(home_team_id, away_team_id) ==
    [home_team_id |-> home_team_id, away_team_id |-> away_team_id,
     active_penalties |-> <<>>]

add_penalty(tr, event_id, team_id, player_id, start_time, duration, severity) ==
    IF severity = "MIS" THEN tr
    ELSE [tr EXCEPT !.active_penalties = Append(@,
            [eventId |-> event_id, teamId |-> team_id, playerId |-> player_id,
             startTime |-> start_time, expiresAt |-> start_time + duration * 60,
             duration |-> duration, durationSeconds |-> duration * 60,
             severity |-> severity, active |-> TRUE,
             expiration_logged |-> FALSE])]

\* the index min(eligible_penalties, key=expiresAt) picks: the first of the
\* eligible penalties with the smallest expiration
\* a variant that picks the eligible penalty expiring last
latest_eligible(pens, eligible) ==
    Min({k \in eligible : \A j \in eligible : pens[k].expiresAt >= pens[j].expiresAt})

earliest_eligible(pens, eligible) ==
    Min({k \in eligible : \A j \in eligible : pens[k].expiresAt <= pens[j].expiresAt})

remove_penalty_on_goal(tr, scoring_team_id, goal_time) ==
    LET shorthanded_team ==
            IF scoring_team_id = tr.home_team_id THEN tr.away_team_id
            ELSE tr.home_team_id
        pens == tr.active_penalties
        eligible == {k \in DOMAIN pens :
                        /\ pens[k].active
                        /\ pens[k].teamId = shorthanded_team
                        /\ pens[k].severity = "MIN"
                        /\ pens[k].expiresAt > goal_time}
    IN  IF eligible = {} THEN tr
        ELSE [tr EXCEPT !.active_penalties[earliest_eligible(pens, eligible)].active = FALSE]

\* a variant that expires a penalty only after its last second
expire_penalties_late(tr, current_time) ==
    LET pens == tr.active_penalties
        due == {k \in DOMAIN pens : pens[k].active /\ pens[k].expiresAt < current_time}
        after == [k \in DOMAIN pens |->
                    IF k \in due
                    THEN [pens[k] EXCEPT !.active = FALSE, !.expiration_logged = TRUE]
                    ELSE pens[k]]
    IN  [tracker |-> [tr EXCEPT !.active_penalties = after],
         expired |-> SelectSeq([k \in DOMAIN pens |-> [idx |-> k, pen |-> after[k]]],
                               LAMBDA r : r.idx \in due /\ ~pens[r.idx].expiration_logged)]

\* a variant that returns the due penalties without marking them
expire_penalties_unmarked(tr, current_time) ==
    LET pens == tr.active_penalties
    IN  [tracker |-> tr,
         expired |-> SelectSeq([k \in DOMAIN pens |-> [idx |-> k, pen |-> pens[k]]],
                               LAMBDA r : r.pen.active /\ r.pen.expiresAt <= current_time)]

\* a variant that also expires the penalties a goal has released
expire_penalties_released_too(tr, current_time) ==
    LET pens == tr.active_penalties
        due == {k \in DOMAIN pens : pens[k].expiresAt <= current_time}
        after == [k \in DOMAIN pens |->
                    IF k \in due
                    THEN [pens[k] EXCEPT !.active = FALSE, !.expiration_logged = TRUE]
                    ELSE pens[k]]
    IN  [tracker |-> [tr EXCEPT !.active_penalties = after],
         expired |-> SelectSeq([k \in DOMAIN pens |-> [idx |-> k, pen |-> after[k]]],
                               LAMBDA r : r.idx \in due /\ ~pens[r.idx].expiration_logged)]

\* expire_penalties: the tracker afterwards and the returned list, each
\* expired penalty with its place in the ledger
expire_penalties(tr, current_time) ==
    LET pens == tr.active_penalties
        due == {k \in DOMAIN pens : pens[k].active /\ pens[k].expiresAt <= current_time}
        after == [k \in DOMAIN pens |->
                    IF k \in due
                    THEN [pens[k] EXCEPT !.active = FALSE, !.expiration_logged = TRUE]
                    ELSE pens[k]]
    IN  [tracker |-> [tr EXCEPT !.active_penalties = after],
         expired |-> SelectSeq([k \in DOMAIN pens |-> [idx |-> k, pen |-> after[k]]],
                               LAMBDA r : r.idx \in due /\ ~pens[r.idx].expiration_logged)]

get_active_penalty_counts(tr) ==
    LET pens == tr.active_penalties
    IN  <<Len(SelectSeq(pens, LAMBDA p : p.active /\ p.teamId = tr.home_team_id)),
          Len(SelectSeq(pens, LAMBDA p : p.active /\ p.teamId = tr.away_team_id))>>

get_current_situation_code(tr) ==
    LET counts == get_active_penalty_counts(tr)
    IN  calculate_situation_code(counts[1], counts[2], TRUE, TRUE)

\* --------------------------------------------- coincidental penalties
\* a variant that takes a missing duration for a 2-minute minor
duration_or_default_minor(details) ==
    IF details.duration = None THEN 2 ELSE details.duration[1]

\* details.get('duration', 0)
duration_or_default(details) ==
    IF details.duration = None THEN 0 ELSE details.duration[1]

\* the penalty_info dicts of the penalty events from index on that share
\* the current event's timeInPeriod; the walk stops at the first other time
collect_penalties_at_time(ps, index) ==
    LET other == {j \in index..Len(ps) : ps[j].timeInPeriod # ps[index].timeInPeriod}
        last == IF other = {} THEN Len(ps) ELSE Min(other) - 1
        infos == [j \in 1..(last - index + 1) |->
                    LET event == ps[index + j - 1]
                    IN  [eventId |-> event.eventId,
                         typeDescKey |-> event.typeDescKey,
                         teamId |-> event.details.eventOwnerTeamId,
                         playerId |-> event.details.committedByPlayerId,
                         duration |-> duration_or_default(event.details),
                         typeCode |-> event.details.typeCode]]
    IN  SelectSeq(infos, LAMBDA p : p.typeDescKey = "penalty")

\* the list of one team's penalties of one type, in log order
penalties_of(all_penalties, is_home, type_code, home_team_id) ==
    SelectSeq(all_penalties,
              LAMBDA p : p.typeCode = type_code /\ ((p.teamId = home_team_id) = is_home))

\* a variant that cancels nothing
drop_none(lst, n) == lst

\* lst[n:]
drop_first(lst, n) == SubSeq(lst, n + 1, Len(lst))

\* a variant without Rule 19.1: one minor each cancels like any other pair
coincidental_resolution_always_cancel(all_penalties, home_team_id) ==
    LET home_minors == penalties_of(all_penalties, TRUE, "MIN", home_team_id)
        away_minors == penalties_of(all_penalties, FALSE, "MIN", home_team_id)
        home_majors == penalties_of(all_penalties, TRUE, "MAJ", home_team_id)
        away_majors == penalties_of(all_penalties, FALSE, "MAJ", home_team_id)
        major_coincidental == Min2(Len(home_majors), Len(away_majors))
        minor_coincidental == Min2(Len(home_minors), Len(away_minors))
    IN  drop_first(home_majors, major_coincidental)
          \o drop_first(away_majors, major_coincidental)
          \o drop_first(home_minors, minor_coincidental)
          \o drop_first(away_minors, minor_coincidental)
          \o penalties_of(all_penalties, TRUE, "MIS", home_team_id)
          \o penalties_of(all_penalties, FALSE, "MIS", home_team_id)

\* Rule 19.1 / Rule 19.5: the penalties to track, misconducts last
coincidental_resolution(all_penalties, home_team_id) ==
    LET home_minors == penalties_of(all_penalties, TRUE, "MIN", home_team_id)
        away_minors == penalties_of(all_penalties, FALSE, "MIN", home_team_id)
        home_majors == penalties_of(all_penalties, TRUE, "MAJ", home_team_id)
        away_majors == penalties_of(all_penalties, FALSE, "MAJ", home_team_id)
        home_misconducts == penalties_of(all_penalties, TRUE, "MIS", home_team_id)
        away_misconducts == penalties_of(all_penalties, FALSE, "MIS", home_team_id)
        major_coincidental == Min2(Len(home_majors), Len(away_majors))
        minor_coincidental == Min2(Len(home_minors), Len(away_minors))
        served ==
            IF /\ Len(home_minors) = 1 /\ Len(away_minors) = 1
               /\ Len(home_majors) = 0 /\ Len(away_majors) = 0
            THEN home_minors \o away_minors
            ELSE drop_first(home_majors, major_coincidental)
                   \o drop_first(away_majors, major_coincidental)
                   \o drop_first(home_minors, minor_coincidental)
                   \o drop_first(away_minors, minor_coincidental)
    IN  served \o home_misconducts \o away_misconducts

\* penalties_by_player: one combined entry per player, in order of first
\* appearance, durations summed, event/team/typeCode of the first penalty
RECURSIVE combine_by_player(_, _)
combine_by_player(to_track, acc) ==
    IF to_track = <<>> THEN acc
    ELSE LET p == Head(to_track)
             at == {k \in DOMAIN acc : acc[k].playerId = p.playerId}
         IN  IF at = {}
             THEN combine_by_player(Tail(to_track), Append(acc,
                     [eventId |-> p.eventId, teamId |-> p.teamId,
                      playerId |-> p.playerId, totalDuration |-> p.duration,
                      typeCode |-> p.typeCode, count |-> 1]))
             ELSE combine_by_player(Tail(to_track),
                     [acc EXCEPT ![Min(at)].totalDuration = @ + p.duration,
                                 ![Min(at)].count = @ + 1])

RECURSIVE add_combined(_, _, _)
add_combined(tr, combined, current_time) ==
    IF combined = <<>> THEN tr
    ELSE LET c == Head(combined)
         IN  add_combined(
                 add_penalty(tr, c.eventId, c.teamId, c.playerId, current_time,
                             c.totalDuration, c.typeCode),
                 Tail(combined), current_time)

\* the tracker afterwards and the call's locals
process_penalties_at_time(ps, index, tr, current_time, home_team_id, away_team_id) ==
    LET all_penalties == collect_penalties_at_time(ps, index)
        penalties_to_track == coincidental_resolution(all_penalties, home_team_id)
        combined == combine_by_player(penalties_to_track, <<>>)
    IN  [tracker |-> add_combined(tr, combined, current_time),
         locals |-> [index |-> index,
                     current_time |-> current_time,
                     all_penalties |-> all_penalties,
                     penalties_to_track |-> penalties_to_track,
                     net_penalties |-> [k \in DOMAIN combined |->
                                          [eventId |-> combined[k].eventId,
                                           teamId |-> combined[k].teamId,
                                           duration |-> combined[k].totalDuration]]]]

\* ------------------------------------------------------ the event log
\* plays_data['homeTeam'] and plays_data['awayTeam'] of the modelled games
home_team == [id |-> 10, abbrev |-> "HOM"]

away_team == [id |-> 20, abbrev |-> "AWY"]

\* the details of an event that has none; an id that is None is 0, which
\* like None equals no team's and no player's id
NoDetails ==
    [eventOwnerTeamId |-> 0, committedByPlayerId |-> 0,
     duration |-> None, typeCode |-> ""]

PlainEvent(type) == [typeDescKey |-> type, details |-> NoDetails]

GoalEvent(team_id) ==
    [typeDescKey |-> "goal",
     details |-> [NoDetails EXCEPT !.eventOwnerTeamId = team_id]]

PenaltyEvent(team_id, player_id, type_code, minutes) ==
    [typeDescKey |-> "penalty",
     details |-> [eventOwnerTeamId |-> team_id, committedByPlayerId |-> player_id,
                  duration |-> Some(minutes), typeCode |-> type_code]]

\* the instants (period, timeInPeriod) the modelled events occur at: 01:40,
\* 02:40 and 03:40 of period 1 (a 2-minute minor called at the first expires
\* exactly at the third) and 01:40 of period 2
EventInstants ==
    {<<1, <<1, 40>>>>, <<1, <<2, 40>>>>, <<1, <<3, 40>>>>, <<2, <<1, 40>>>>}

\* what an event of the scanned logs can be
EventKinds ==
    {PlainEvent("faceoff"), PlainEvent("stoppage"), PlainEvent("delayed-penalty"),
     PlainEvent("period-end"),
     GoalEvent(home_team.id), GoalEvent(away_team.id),
     PenaltyEvent(home_team.id, 11, "MIN", 2),
     PenaltyEvent(away_team.id, 21, "MIN", 2),
     PenaltyEvent(away_team.id, 22, "MAJ", 5)}

\* what a penalty called in one group can be (SpecResolve)
GroupPenalties ==
    {PenaltyEvent(t, p, c[1], c[2]) :
        t \in {home_team.id}, p \in {11, 12}, c \in {<<"MIN", 2>>, <<"MAJ", 5>>, <<"MIS", 10>>}}
    \cup
    {PenaltyEvent(t, p, c[1], c[2]) :
        t \in {away_team.id}, p \in {21, 22}, c \in {<<"MIN", 2>>, <<"MAJ", 5>>, <<"MIS", 10>>}}

MakeEvent(kind, instant, event_id) ==
    [eventId |-> event_id, typeDescKey |-> kind.typeDescKey,
     period |-> instant[1], timeInPeriod |-> instant[2],
     situationCode |-> <<"1", "5", "5", "1">>, details |-> kind.details]

EventGameSeconds(event) ==
    calculate_game_seconds(event.period, time_to_seconds(event.timeInPeriod))

\* the log of n events with the given kinds and instants
MakeLog(n, kinds, instants) ==
    [k \in 1..n |-> MakeEvent(kinds[k], instants[k], k)]

\* the events of a log are in game-time order
InGameTimeOrder(log) ==
    \A k \in 1..(Len(log) - 1) :
        EventGameSeconds(log[k]) <= EventGameSeconds(log[k + 1])

\* ------------------------------------------------ generate_timeline (v1)
ScanStart(log) ==
    /\ plays = log
    /\ i = 1
    /\ tracker = PenaltyTracker(home_team.id, away_team.id)
    /\ timeline = <<>>
    /\ previous_situation = None
    /\ in_delayed_penalty_sequence = FALSE
    /\ delayed_penalty_logged = FALSE
    /\ processed_penalty_timestamps = {}
    /\ resolution = None
    /\ home_shifts = [players |-> <<>>]
    /\ away_shifts = [players |-> <<>>]
    /\ boxscore = None
    /\ stage = "scan"
    /\ game_info = None
    /\ validate = TRUE
    /\ validation = None
    /\ returned = None
    /\ written = {}
    /\ call_args = None
    /\ call_result = None
    /\ batch = None
    /\ pipeline_state = None

\* a log of up to MaxEvents events over EventKinds and EventInstants
Init ==
    \E n \in 1..MaxEvents :
        \E instants \in [1..n -> EventInstants] :
            \E kinds \in [1..n -> EventKinds] :
                /\ InGameTimeOrder(MakeLog(n, kinds, instants))
                /\ ScanStart(MakeLog(n, kinds, instants))

\* a log of up to MaxGroup penalties, all called at 01:40 of period 1
InitResolve ==
    \E n \in 1..MaxGroup :
        \E kinds \in [1..n -> GroupPenalties] :
            ScanStart(MakeLog(n, kinds, [k \in 1..n |-> <<1, <<1, 40>>>>]))

\* the timeline entry of a real event
real_entry(event, is_delayed) ==
    [eventId |-> event.eventId,
     eventType |-> event.typeDescKey,
     periodNumber |-> event.period,
     timeInPeriod |-> event.timeInPeriod,
     secondsIntoPeriod |-> time_to_seconds(event.timeInPeriod),
     secondsElapsedGame |-> EventGameSeconds(event),
     situationCode_before |-> previous_situation,
     situationCode_after |-> event.situationCode,
     isSynthetic |-> FALSE,
     isDelayedPenalty |-> is_delayed,
     penaltyExpiration |-> None]

\* the synthetic entries of one expire_penalties result, in ledger order
synthetic_entries(expired, situation_after_expiration, before) ==
    [k \in DOMAIN expired |->
        LET penalty == expired[k].pen
            exp == game_seconds_to_period_time(penalty.expiresAt)
        IN  [eventId |-> None,
             eventType |-> "penalty-expired",
             periodNumber |-> exp[1],
             timeInPeriod |-> seconds_to_time(exp[2]),
             secondsIntoPeriod |-> exp[2],
             secondsElapsedGame |-> penalty.expiresAt,
             situationCode_before |->
                 IF k = 1 THEN before ELSE situation_after_expiration,
             situationCode_after |-> situation_after_expiration,
             isSynthetic |-> TRUE,
             isDelayedPenalty |-> FALSE,
             penaltyExpiration |-> Some([originalEventId |-> penalty.eventId,
                                         penaltyDuration |-> penalty.duration,
                                         teamId |-> penalty.teamId])]]

timestamp_key(event) == <<event.period, event.timeInPeriod>>

\* whether the iteration at this event runs inside a delayed-penalty sequence
InSequence(event) ==
    in_delayed_penalty_sequence \/ event.typeDescKey = "delayed-penalty"

\* the penalty branch shared by both paths: resolve the timestamp once
LedgerPenalties(event, tr) ==
    IF event.typeDescKey = "penalty"
       /\ timestamp_key(event) \notin processed_penalty_timestamps
    THEN LET r == process_penalties_at_time(plays, i, tr, EventGameSeconds(event),
                                            home_team.id, away_team.id)
         IN  /\ tracker' = r.tracker
             /\ resolution' = Some(r.locals)
             /\ processed_penalty_timestamps' =
                    processed_penalty_timestamps \cup {timestamp_key(event)}
    ELSE /\ tracker' = tr
         /\ UNCHANGED <<resolution, processed_penalty_timestamps>>

\* lines 427-454: the delayed-penalty announcement is logged
DelayedPenaltyAnnounce ==
    /\ i <= Len(plays)
    /\ plays[i].typeDescKey = "delayed-penalty"
    /\ in_delayed_penalty_sequence' = TRUE
    /\ delayed_penalty_logged' = TRUE
    /\ timeline' = Append(timeline, real_entry(plays[i], TRUE))
    /\ i' = i + 1
    /\ UNCHANGED <<plays, tracker, previous_situation,
                   processed_penalty_timestamps, resolution, gameVars, callVars, driverVars>>

\* lines 457-467: a penalty inside the sequence is ledgered, not logged
DelayedSequencePenalty ==
    /\ i <= Len(plays)
    /\ in_delayed_penalty_sequence
    /\ plays[i].typeDescKey = "penalty"
    /\ LedgerPenalties(plays[i], tracker)
    /\ i' = i + 1
    /\ UNCHANGED <<plays, timeline, previous_situation,
                   in_delayed_penalty_sequence, delayed_penalty_logged, gameVars, callVars, driverVars>>

\* lines 470-472 and 500-502: every other event inside the sequence is skipped
DelayedSequenceSkip ==
    /\ i <= Len(plays)
    /\ in_delayed_penalty_sequence
    /\ plays[i].typeDescKey \notin {"delayed-penalty", "penalty", "faceoff"}
    /\ i' = i + 1
    /\ UNCHANGED <<plays, tracker, timeline, previous_situation,
                   in_delayed_penalty_sequence, delayed_penalty_logged,
                   processed_penalty_timestamps, resolution, gameVars, callVars, driverVars>>

\* a variant whose faceoff is logged without ending the sequence
DelayedSequenceFaceoff_stays ==
    /\ i <= Len(plays)
    /\ in_delayed_penalty_sequence
    /\ plays[i].typeDescKey = "faceoff"
    /\ timeline' = Append(timeline, real_entry(plays[i], FALSE))
    /\ previous_situation' = plays[i].situationCode
    /\ i' = i + 1
    /\ UNCHANGED <<plays, tracker, delayed_penalty_logged, in_delayed_penalty_sequence,
                   processed_penalty_timestamps, resolution, gameVars, callVars, driverVars>>

\* lines 475-497: the faceoff is logged and ends the sequence
DelayedSequenceFaceoff ==
    /\ i <= Len(plays)
    /\ in_delayed_penalty_sequence
    /\ plays[i].typeDescKey = "faceoff"
    /\ timeline' = Append(timeline, real_entry(plays[i], FALSE))
    /\ previous_situation' = plays[i].situationCode
    /\ in_delayed_penalty_sequence' = FALSE
    /\ i' = i + 1
    /\ UNCHANGED <<plays, tracker, delayed_penalty_logged,
                   processed_penalty_timestamps, resolution, gameVars, callVars, driverVars>>

\* lines 504-581: an event outside a delayed-penalty sequence
RegularEvent ==
    /\ i <= Len(plays)
    /\ ~InSequence(plays[i])
    /\ LET event == plays[i]
           seconds_elapsed_game == EventGameSeconds(event)
           ex == expire_penalties(tracker, seconds_elapsed_game)
           situation_after_expiration == get_current_situation_code(ex.tracker)
           synth == synthetic_entries(ex.expired, situation_after_expiration,
                                      previous_situation)
           prev1 == IF ex.expired = <<>> THEN previous_situation
                    ELSE situation_after_expiration
           loggable == event.typeDescKey \in {"period-start", "period-end", "faceoff"}
       IN  /\ IF event.typeDescKey = "goal"
              THEN /\ tracker' = remove_penalty_on_goal(
                                     ex.tracker, event.details.eventOwnerTeamId,
                                     seconds_elapsed_game)
                   /\ UNCHANGED <<resolution, processed_penalty_timestamps>>
              ELSE LedgerPenalties(event, ex.tracker)
           /\ timeline' =
                 IF loggable
                 THEN Append(timeline \o synth,
                             [real_entry(event, FALSE) EXCEPT
                                 !.situationCode_before = prev1])
                 ELSE timeline \o synth
           /\ previous_situation' =
                 IF loggable THEN event.situationCode ELSE prev1
    /\ i' = i + 1
    /\ UNCHANGED <<plays, in_delayed_penalty_sequence, delayed_penalty_logged,
                   gameVars, callVars, driverVars>>

Next ==
    \/ DelayedPenaltyAnnounce
    \/ DelayedSequencePenalty
    \/ DelayedSequenceSkip
    \/ DelayedSequenceFaceoff
    \/ RegularEvent

Spec == Init /\ [][Next]_vars

\* the resolution of one group of penalties called at one timestamp
NextResolve == RegularEvent

SpecResolve == InitResolve /\ [][NextResolve]_vars

\* the instants of the example's other events: 01:40, 01:41, 03:39, 03:40,
\* 03:41 and 20:00 of period 1
ExampleInstants ==
    {<<1, <<1, 40>>>>, <<1, <<1, 41>>>>, <<1, <<3, 39>>>>, <<1, <<3, 40>>>>,
     <<1, <<3, 41>>>>, <<1, <<20, 0>>>>}

\* the example's other events: no goals and no other penalty
ExampleKinds ==
    {PlainEvent("faceoff"), PlainEvent("stoppage"), PlainEvent("delayed-penalty"),
     PlainEvent("period-end")}

\* a one-period log of up to MaxEvents events with one penalty, a 2-minute
\* minor on home player 11 called at 01:40 (game-second 100), and no goals
InitExample ==
    \E n \in 1..MaxEvents :
        \E called \in 1..n :
            \E instants \in [1..n -> ExampleInstants] :
                \E kinds \in [1..n -> ExampleKinds] :
                    LET log == MakeLog(n,
                                 [k \in 1..n |-> IF k = called
                                                 THEN PenaltyEvent(home_team.id, 11, "MIN", 2)
                                                 ELSE kinds[k]],
                                 [k \in 1..n |-> IF k = called THEN <<1, <<1, 40>>>>
                                                 ELSE instants[k]])
                    IN  /\ kinds[called] = PlainEvent("faceoff")
                        /\ instants[called] = <<1, <<1, 40>>>>
                        /\ InGameTimeOrder(log)
                        /\ ScanStart(log)

SpecExample == InitExample /\ [][Next]_vars

\* a team id that is neither the home nor the away team's
UnresolvedTeamId == 99

\* events of a log with unresolvable teams: a goal and a minor of a team
\* that is not in the game, next to a home minor and the events of a
\* delayed-penalty sequence
UnresolvedKinds ==
    {PlainEvent("faceoff"), PlainEvent("delayed-penalty"),
     GoalEvent(UnresolvedTeamId),
     PenaltyEvent(home_team.id, 11, "MIN", 2),
     PenaltyEvent(UnresolvedTeamId, 91, "MIN", 2)}

InitUnresolved ==
    \E n \in 1..MaxEvents :
        \E instants \in [1..n -> EventInstants] :
            \E kinds \in [1..n -> UnresolvedKinds] :
                /\ InGameTimeOrder(MakeLog(n, kinds, instants))
                /\ ScanStart(MakeLog(n, kinds, instants))

SpecUnresolved == InitUnresolved /\ [][Next]_vars

\* the player of the modelled penalty without a duration
NoDurationPlayerId == 23

\* events of a log with a minor without a duration against the away team,
\* next to two home minors and the events of a delayed-penalty sequence
NoDurationKinds ==
    {PlainEvent("faceoff"), PlainEvent("delayed-penalty"), PlainEvent("stoppage"),
     PenaltyEvent(home_team.id, 11, "MIN", 2),
     PenaltyEvent(home_team.id, 12, "MIN", 2),
     [PenaltyEvent(away_team.id, NoDurationPlayerId, "MIN", 0)
         EXCEPT !.details.duration = None]}

InitNoDuration ==
    \E n \in 1..MaxEvents :
        \E instants \in [1..n -> EventInstants] :
            \E kinds \in [1..n -> NoDurationKinds] :
                /\ InGameTimeOrder(MakeLog(n, kinds, instants))
                /\ ScanStart(MakeLog(n, kinds, instants))

SpecNoDuration == InitNoDuration /\ [][Next]_vars

\* ====================================================================
\* v2/timelines/generate_timeline.py
\* ====================================================================

\* one team's jersey number -> player ID dict: the groups are read in the
\* order forwards, defense, goalies and a later player of the same number
\* overwrites an earlier one
team_player_mapping(team_data) ==
    LET all == team_data.forwards \o team_data.defense \o team_data.goalies
        listed == {k \in DOMAIN all :
                      all[k].sweaterNumber # None /\ all[k].playerId # None}
        sweaters == {all[k].sweaterNumber[1] : k \in listed}
    IN [sweater \in sweaters |->
           all[Max({k \in listed : all[k].sweaterNumber[1] = sweater})].playerId[1]]

build_player_mapping(bs) ==
    [home |-> team_player_mapping(bs.playerByGameStats.homeTeam),
     away |-> team_player_mapping(bs.playerByGameStats.awayTeam)]

team_goalie_ids(team_data) ==
    {team_data.goalies[k].playerId[1] :
        k \in {g \in DOMAIN team_data.goalies : team_data.goalies[g].playerId # None}}

get_goalie_ids(bs) ==
    [home |-> team_goalie_ids(bs.playerByGameStats.homeTeam),
     away |-> team_goalie_ids(bs.playerByGameStats.awayTeam)]

\* time_to_seconds of the v2 generator: int(MM) * 60 + int(SS)
time_to_seconds_v2(time_str) == time_str[1] * 60 + time_str[2]

\* the players of a shift file that process_shifts and validate_toi do not
\* skip: the jersey number is present and the boxscore maps it
mapped_players(shifts_data, player_mapping) ==
    {p \in DOMAIN shifts_data.players :
        /\ shifts_data.players[p].number # None
        /\ shifts_data.players[p].number[1] \in DOMAIN player_mapping}

\* a variant whose range runs through the end second
shift_seconds_through_end(shift) ==
    IF shift.startTime = None \/ shift.endTime = None THEN {}
    ELSE time_to_seconds_v2(shift.startTime) .. time_to_seconds_v2(shift.endTime)

\* range(start_sec, end_sec) of a shift that has both times
shift_seconds(shift) ==
    IF shift.startTime = None \/ shift.endTime = None THEN {}
    ELSE time_to_seconds_v2(shift.startTime) .. (time_to_seconds_v2(shift.endTime) - 1)

\* a variant that also puts a goaltender among the skaters
process_shifts_goalie_skates(shifts_data, player_mapping, goalie_ids) ==
    LET players == shifts_data.players
        mapped == mapped_players(shifts_data, player_mapping)
        player_id(p) == player_mapping[players[p].number[1]]
        covers(p, key) ==
            \E s \in DOMAIN players[p].shifts :
                /\ players[p].shifts[s].period = key[1]
                /\ key[2] \in shift_seconds(players[p].shifts[s])
        keys == UNION {UNION {{<<players[p].shifts[s].period, sec>> :
                                   sec \in shift_seconds(players[p].shifts[s])} :
                              s \in DOMAIN players[p].shifts} : p \in mapped}
        goalies_at(key) ==
            {p \in mapped : player_id(p) \in goalie_ids /\ covers(p, key)}
        skaters_at(key) ==
            {p \in mapped : covers(p, key)}
    IN [key \in keys |->
           [skaters |-> {player_id(p) : p \in skaters_at(key)},
            goalie |-> IF goalies_at(key) = {} THEN None
                       ELSE Some(player_id(Max(goalies_at(key))))]]

\* the (period, second) -> {skaters, goalie} dict.  The loops run over the
\* players in file order, so the goalie of a key is the last goaltender of
\* the file with a shift over it; the skaters are a set
process_shifts(shifts_data, player_mapping, goalie_ids) ==
    LET players == shifts_data.players
        mapped == mapped_players(shifts_data, player_mapping)
        player_id(p) == player_mapping[players[p].number[1]]
        covers(p, key) ==
            \E s \in DOMAIN players[p].shifts :
                /\ players[p].shifts[s].period = key[1]
                /\ key[2] \in shift_seconds(players[p].shifts[s])
        keys == UNION {UNION {{<<players[p].shifts[s].period, sec>> :
                                   sec \in shift_seconds(players[p].shifts[s])} :
                              s \in DOMAIN players[p].shifts} : p \in mapped}
        goalies_at(key) ==
            {p \in mapped : player_id(p) \in goalie_ids /\ covers(p, key)}
        skaters_at(key) ==
            {p \in mapped : player_id(p) \notin goalie_ids /\ covers(p, key)}
    IN [key \in keys |->
           [skaters |-> {player_id(p) : p \in skaters_at(key)},
            goalie |-> IF goalies_at(key) = {} THEN None
                       ELSE Some(player_id(Max(goalies_at(key))))]]

PenaltyShotCodes == {<<"0", "1", "0", "1">>, <<"1", "0", "1", "0">>}

\* the plays that get_penalty_shots keeps, by index
penalty_shot_plays(ps) ==
    {k \in DOMAIN ps :
        /\ ps[k].situationCode \in PenaltyShotCodes
        /\ ps[k].period # 5
        /\ ps[k].typeDescKey \notin {"period-end", "game-end"}}

get_penalty_shots(ps) ==
    LET kept == Sorted(penalty_shot_plays(ps))
    IN [n \in DOMAIN kept |->
           [period |-> ps[kept[n]].period,
            second |-> time_to_seconds_v2(ps[kept[n]].timeInPeriod),
            shooter_team |-> IF ps[kept[n]].situationCode = <<"1", "0", "1", "0">>
                             THEN "home" ELSE "away",
            situation_code |-> ps[kept[n]].situationCode]]

\* {(ps['period'], ps['second']): ps for ps in penalty_shots}: the last
\* penalty shot of a key stays
penalty_shot_lookup(penalty_shots) ==
    LET keys == {<<penalty_shots[n].period, penalty_shots[n].second>> :
                    n \in DOMAIN penalty_shots}
    IN [key \in keys |->
           penalty_shots[Max({n \in DOMAIN penalty_shots :
               <<penalty_shots[n].period, penalty_shots[n].second>> = key})]]

get_game_info(bs, ps) ==
    [gameId |-> bs.id,
     gameType |-> bs.gameType,
     isPlayoff |-> (bs.gameType = 3),
     numPeriods |-> Max({0} \cup {ps[k].period : k \in DOMAIN ps})]

\* a variant that knows the regular-season lengths only
get_period_length_regular_season(period, is_playoff) ==
    IF period <= 3 THEN 1200
    ELSE 300

get_period_length(period, is_playoff) ==
    IF period <= 3 THEN 1200
    ELSE IF is_playoff THEN 1200
    ELSE 300

\* a variant that writes the home fields first
build_situation_code_swapped(home_skaters, home_goalie, away_skaters, away_goalie) ==
    <<IF home_goalie THEN "1" ELSE "0">> \o IntToStr(home_skaters)
        \o IntToStr(away_skaters) \o <<IF away_goalie THEN "1" ELSE "0">>

build_situation_code(home_skaters, home_goalie, away_skaters, away_goalie) ==
    <<IF away_goalie THEN "1" ELSE "0">> \o IntToStr(away_skaters)
        \o IntToStr(home_skaters) \o <<IF home_goalie THEN "1" ELSE "0">>

\* int() of one character of a code
CharToInt(c) == CHOOSE d \in 0..9 : DigitChar(d) = c

\* a variant that does not take the extra attacker out
situationcode_to_strength_raw(code) ==
    IF code \in PenaltyShotCodes THEN <<"N", "/", "A">>
    ELSE IntToStr(Max2(CharToInt(code[2]), CharToInt(code[3]))) \o <<"v">>
            \o IntToStr(Min2(CharToInt(code[2]), CharToInt(code[3])))

situationcode_to_strength(code) ==
    IF code \in PenaltyShotCodes THEN <<"N", "/", "A">>
    ELSE LET away_skaters == CharToInt(code[2]) - (IF CharToInt(code[1]) = 0 THEN 1 ELSE 0)
             home_skaters == CharToInt(code[3]) - (IF CharToInt(code[4]) = 0 THEN 1 ELSE 0)
         IN IntToStr(Max2(away_skaters, home_skaters)) \o <<"v">>
                \o IntToStr(Min2(away_skaters, home_skaters))

\* dict.get(key, {'skaters': set(), 'goalie': None})
seconds_get(seconds, key) ==
    IF key \in DOMAIN seconds THEN seconds[key]
    ELSE [skaters |-> {}, goalie |-> None]

\* the entry of one second (the body of the inner loop)
\* list(S) of a set of player ids.  The order in which a set is iterated
\* is not fixed by the language: each run of the rerun specification has
\* drawn its own order of all ids, elsewhere the ids come in ascending order
set_iteration(S) ==
    IF stage = "rerun"
    THEN SelectSeq(call_args[1].orders[Len(call_result) + 1], LAMBDA id : id \in S)
    ELSE Sorted(S)

\* a variant that keeps the list as the set gave it
sorted_players_as_iterated(ids) == ids

\* sorted() of a list of ids
sorted_players(ids) == SortSeq(ids, LAMBDA a, b : a < b)

timeline_entry(period, sec, total_elapsed, home_seconds, away_seconds, shots) ==
    LET key == <<period, sec>>
        home_data == seconds_get(home_seconds, key)
        away_data == seconds_get(away_seconds, key)
        home_skaters == sorted_players(set_iteration(home_data.skaters))
        away_skaters == sorted_players(set_iteration(away_data.skaters))
        home_goalie == home_data.goalie
        away_goalie == away_data.goalie
        situation_code ==
            IF key \in DOMAIN shots THEN shots[key].situation_code
            ELSE build_situation_code(Len(home_skaters), home_goalie # None,
                                      Len(away_skaters), away_goalie # None)
    IN [period |-> period,
        secondsIntoPeriod |-> sec,
        secondsElapsedGame |-> total_elapsed,
        situationCode |-> situation_code,
        strength |-> situationcode_to_strength(situation_code),
        home |-> [skaters |-> home_skaters,
                  skaterCount |-> Len(home_skaters),
                  goalie |-> home_goalie],
        away |-> [skaters |-> away_skaters,
                  skaterCount |-> Len(away_skaters),
                  goalie |-> away_goalie]]

\* the outer loop from one period on: period 5 of a game that is not a
\* playoff game (the shootout) is skipped
RECURSIVE timeline_from(_, _, _, _, _, _)
timeline_from(period, total_elapsed, info, home_seconds, away_seconds, shots) ==
    IF period > info.numPeriods THEN <<>>
    ELSE IF period = 5 /\ ~info.isPlayoff
    THEN timeline_from(period + 1, total_elapsed, info, home_seconds, away_seconds, shots)
    ELSE LET period_length == get_period_length(period, info.isPlayoff)
         IN [n \in 1..period_length |->
                timeline_entry(period, n - 1, total_elapsed + n - 1,
                               home_seconds, away_seconds, shots)]
            \o timeline_from(period + 1, total_elapsed + period_length, info,
                             home_seconds, away_seconds, shots)

\* generate_timeline of the v2 generator, from the loaded files
generate_timeline_v2(home_file, away_file, bs, ps) ==
    LET player_mapping == build_player_mapping(bs)
        goalie_ids == get_goalie_ids(bs)
        home_seconds == process_shifts(home_file, player_mapping.home, goalie_ids.home)
        away_seconds == process_shifts(away_file, player_mapping.away, goalie_ids.away)
        shots == penalty_shot_lookup(get_penalty_shots(ps))
        info == get_game_info(bs, ps)
    IN [game_info |-> info,
        timeline |-> timeline_from(1, 0, info, home_seconds, away_seconds, shots)]

\* an empty TOI string counts as 0
parse_toi_to_seconds(toi_str) ==
    IF toi_str = <<>> THEN 0 ELSE toi_str[1] * 60 + toi_str[2]

\* Python's truth of a goalie slot: None and the id 0 are false
goalie_counts(goalie) == goalie # None /\ goalie[1] # 0

\* calculated_toi.get(player_id, 0): one per appearance in an entry's home
\* skaters, home goalie, away skaters and away goalie
calculated_toi(tl, player_id) ==
    Cardinality({n \in DOMAIN tl : player_id \in Range(tl[n].home.skaters)})
    + Cardinality({n \in DOMAIN tl : goalie_counts(tl[n].home.goalie)
                                      /\ tl[n].home.goalie[1] = player_id})
    + Cardinality({n \in DOMAIN tl : player_id \in Range(tl[n].away.skaters)})
    + Cardinality({n \in DOMAIN tl : goalie_counts(tl[n].away.goalie)
                                      /\ tl[n].away.goalie[1] = player_id})

\* the errors of one team, in the order of its shift file
team_toi_errors(tl, team_type, shifts_data, mapping) ==
    LET players == shifts_data.players
        player_id(p) == mapping[players[p].number[1]]
        wrong == {p \in mapped_players(shifts_data, mapping) :
                     parse_toi_to_seconds(players[p].gameTotals.toi)
                         # calculated_toi(tl, player_id(p))}
        order == Sorted(wrong)
    IN [k \in DOMAIN order |->
           [team_type |-> team_type,
            jersey |-> players[order[k]].number[1],
            actual_toi |-> calculated_toi(tl, player_id(order[k])),
            expected_toi |-> parse_toi_to_seconds(players[order[k]].gameTotals.toi)]]

\* a variant that compares the home team's totals only
validate_toi_home_only(tl, home_file, away_file, player_mapping, goalie_ids) ==
    LET errors == team_toi_errors(tl, "home", home_file, player_mapping.home)
    IN [success |-> (Len(errors) = 0), errors |-> errors]

validate_toi(tl, home_file, away_file, player_mapping, goalie_ids) ==
    LET errors == team_toi_errors(tl, "home", home_file, player_mapping.home)
                  \o team_toi_errors(tl, "away", away_file, player_mapping.away)
    IN [success |-> (Len(errors) = 0), errors |-> errors]

\* ----------------------------------------------------- the game files
BoxPlayer(sweater, player_id) ==
    [sweaterNumber |-> Some(sweater), playerId |-> Some(player_id)]

\* the boxscore of the modelled games: the home forwards wear 1..MaxSkaters,
\* a home defenseman wears 50, the home goaltenders 30 and 31; the away
\* forwards wear 1..5 and the away goaltender 30
GameBoxscore(game_type) ==
    [id |-> 2024020001,
     gameType |-> game_type,
     playerByGameStats |->
        [homeTeam |-> [forwards |-> [n \in 1..MaxSkaters |-> BoxPlayer(n, 100 + n)],
                       defense |-> <<BoxPlayer(50, 150)>>,
                       goalies |-> <<BoxPlayer(30, 130), BoxPlayer(31, 131)>>],
         awayTeam |-> [forwards |-> [n \in 1..5 |-> BoxPlayer(n, 200 + n)],
                       defense |-> <<>>,
                       goalies |-> <<BoxPlayer(30, 230)>>]]]

Shift(period, start_time, end_time) ==
    [period |-> period, startTime |-> start_time, endTime |-> end_time]

FilePlayer(number, shifts, toi) ==
    [number |-> number, shifts |-> shifts, gameTotals |-> [toi |-> toi]]

\* k forwards, each with the shift 00:00-00:03 of period 1
ForwardLines(k) ==
    [n \in 1..k |-> FilePlayer(Some(n), <<Shift(1, <<0, 0>>, <<0, 3>>)>>, <<0, 3>>)]

\* what the home shift file holds besides its forwards and goaltenders
ExtraHomePlayers ==
    {<<>>,
     \* a jersey number the boxscore does not list
     <<FilePlayer(Some(99), <<Shift(1, <<0, 0>>, <<0, 2>>)>>, <<0, 2>>)>>,
     \* no jersey number
     <<FilePlayer(None, <<Shift(1, <<0, 0>>, <<0, 2>>)>>, <<0, 2>>)>>,
     \* two shifts back to back
     <<FilePlayer(Some(50), <<Shift(1, <<0, 1>>, <<0, 2>>),
                              Shift(1, <<0, 2>>, <<0, 4>>)>>, <<0, 3>>)>>,
     \* two shifts that overlap in one second
     <<FilePlayer(Some(50), <<Shift(1, <<0, 0>>, <<0, 3>>),
                              Shift(1, <<0, 2>>, <<0, 4>>)>>, <<0, 5>>)>>,
     \* a total that is one second more than the shift
     <<FilePlayer(Some(50), <<Shift(1, <<0, 0>>, <<0, 3>>)>>, <<0, 4>>)>>,
     \* a shift with no end time and no total
     <<FilePlayer(Some(50), <<Shift(1, <<0, 0>>, None)>>, <<>>)>>}

\* the goaltenders of the home shift file: none; one for the whole first
\* period; one who leaves after two seconds; two whose shifts overlap
HomeGoaltenders ==
    {<<>>,
     <<FilePlayer(Some(30), <<Shift(1, <<0, 0>>, <<20, 0>>)>>, <<20, 0>>)>>,
     <<FilePlayer(Some(30), <<Shift(1, <<0, 0>>, <<0, 2>>)>>, <<0, 2>>)>>,
     <<FilePlayer(Some(30), <<Shift(1, <<0, 0>>, <<0, 3>>)>>, <<0, 3>>),
       FilePlayer(Some(31), <<Shift(1, <<0, 2>>, <<0, 4>>)>>, <<0, 2>>)>>}

\* five forwards and a goaltender, all with the totals of their shifts
AwayLineup ==
    [players |-> ForwardLines(5)
        \o <<FilePlayer(Some(30), <<Shift(1, <<0, 0>>, <<20, 0>>)>>, <<20, 0>>)>>]

\* the away shift file: empty; AwayLineup; five forwards, the last with a
\* total that is one second short
AwayFiles ==
    {[players |-> <<>>],
     AwayLineup,
     [players |-> ForwardLines(4)
         \o <<FilePlayer(Some(5), <<Shift(1, <<0, 0>>, <<0, 3>>)>>, <<0, 2>>)>>]}

PlayWithCode(type, period, time_in_period, code) ==
    [MakeEvent(PlainEvent(type), <<period, time_in_period>>, 0)
        EXCEPT !.situationCode = code]

FiveOnFive == <<"1", "5", "5", "1">>

\* one period with a penalty shot of the home team and one of the away team
PenaltyShotGame ==
    [plays |-> <<PlayWithCode("faceoff", 1, <<0, 0>>, FiveOnFive),
                 PlayWithCode("shot-on-goal", 1, <<0, 1>>, <<"1", "0", "1", "0">>),
                 PlayWithCode("goal", 1, <<0, 5>>, <<"0", "1", "0", "1">>)>>,
     gameType |-> 2]

\* the play-by-play files and game types of the modelled games
GameShapes ==
    {\* no plays
     [plays |-> <<>>, gameType |-> 2],
     PenaltyShotGame,
     \* a period-end event that carries a penalty-shot code, overtime and
     \* a shootout
     [plays |-> <<PlayWithCode("period-end", 1, <<0, 1>>, <<"0", "1", "0", "1">>),
                  PlayWithCode("faceoff", 4, <<0, 0>>, FiveOnFive),
                  PlayWithCode("goal", 5, <<0, 0>>, <<"1", "0", "1", "0">>)>>,
      gameType |-> 2],
     \* a playoff game with a penalty shot in its second overtime
     [plays |-> <<PlayWithCode("faceoff", 4, <<0, 0>>, FiveOnFive),
                  PlayWithCode("shot-on-goal", 5, <<0, 1>>, <<"1", "0", "1", "0">>)>>,
      gameType |-> 3]}

\* ------------------------------------------------------- process_game
GameStart(home_file, away_file, shape, with_validation, files_found) ==
    /\ home_shifts = home_file
    /\ away_shifts = away_file
    /\ boxscore = IF files_found THEN Some(GameBoxscore(shape.gameType)) ELSE None
    /\ plays = shape.plays
    /\ validate = with_validation
    /\ stage = "generate"
    /\ timeline = <<>>
    /\ game_info = None
    /\ validation = None
    /\ returned = None
    /\ written = {}
    /\ call_args = None
    /\ call_result = None
    /\ batch = None
    /\ pipeline_state = None
    /\ i = 1
    /\ tracker = PenaltyTracker(home_team.id, away_team.id)
    /\ previous_situation = None
    /\ in_delayed_penalty_sequence = FALSE
    /\ delayed_penalty_logged = FALSE
    /\ processed_penalty_timestamps = {}
    /\ resolution = None

\* the home shift file varies in PenaltyShotGame against AwayLineup with
\* validation; the away file, the game's shape and the validate argument
\* vary with a home file of goaltenders only; the files are missing or not
\* with an empty home file
InitGame ==
    \E k \in 0..MaxSkaters, extra \in ExtraHomePlayers, goalies \in HomeGoaltenders,
       away_file \in AwayFiles, shape \in GameShapes,
       with_validation \in BOOLEAN, files_found \in BOOLEAN :
        /\ \/ away_file = AwayLineup /\ shape = PenaltyShotGame /\ with_validation
           \/ k = 0 /\ extra = <<>>
        /\ files_found \/ (k = 0 /\ extra = <<>> /\ goalies = <<>>)
        /\ GameStart([players |-> ForwardLines(k) \o extra \o goalies],
                     away_file, shape, with_validation, files_found)

\* generate_timeline(season, game_id); a file that is not there raises
\* FileNotFoundError and process_game returns False
GenerateTimeline ==
    /\ stage = "generate"
    /\ IF boxscore = None
       THEN /\ returned' = Some(FALSE)
            /\ stage' = "done"
            /\ UNCHANGED <<timeline, game_info>>
       ELSE LET generated == generate_timeline_v2(home_shifts, away_shifts,
                                                  boxscore[1], plays)
            IN /\ timeline' = generated.timeline
               /\ game_info' = Some(generated.game_info)
               /\ stage' = IF validate THEN "validate" ELSE "write"
               /\ UNCHANGED returned
    /\ UNCHANGED <<plays, home_shifts, away_shifts, boxscore, validate,
                   validation, written, scanVars, callVars, driverVars>>

\* a variant that reports a mismatch and goes on to write
ValidateTOI_warns ==
    /\ stage = "validate"
    /\ validation' = Some(validate_toi(timeline, home_shifts, away_shifts,
                                       build_player_mapping(boxscore[1]),
                                       get_goalie_ids(boxscore[1])))
    /\ stage' = "write"
    /\ UNCHANGED <<plays, timeline, home_shifts, away_shifts, boxscore,
                   game_info, validate, returned, written, scanVars, callVars, driverVars>>

\* the validation step: a mismatch returns False before anything is written
ValidateTOI ==
    /\ stage = "validate"
    /\ LET result == validate_toi(timeline, home_shifts, away_shifts,
                                  build_player_mapping(boxscore[1]),
                                  get_goalie_ids(boxscore[1]))
       IN /\ validation' = Some(result)
          /\ IF result.success
             THEN /\ stage' = "write"
                  /\ UNCHANGED returned
             ELSE /\ stage' = "done"
                  /\ returned' = Some(FALSE)
    /\ UNCHANGED <<plays, timeline, home_shifts, away_shifts, boxscore,
                   game_info, validate, written, scanVars, callVars, driverVars>>

\* write_json_output, write_csv_output and the return of True
WriteOutput ==
    /\ stage = "write"
    /\ written' = {"json", "csv"}
    /\ returned' = Some(TRUE)
    /\ stage' = "done"
    /\ UNCHANGED <<plays, timeline, home_shifts, away_shifts, boxscore,
                   game_info, validate, validation, scanVars, callVars, driverVars>>

NextGame ==
    \/ GenerateTimeline
    \/ ValidateTOI
    \/ WriteOutput

SpecGame == InitGame /\ [][NextGame]_vars

\* ---------------------------------------------- the same game run twice
\* the ids of the boxscore in ascending and in descending order: the orders
\* in which a run may iterate a set of them
IterationOrders ==
    LET ids == {100 + n : n \in 1..MaxSkaters} \cup {130, 131, 150}
                   \cup {200 + n : n \in 1..5} \cup {230}
        ascending == Sorted(ids)
    IN {ascending, [n \in DOMAIN ascending |-> ascending[Len(ascending) + 1 - n]]}

RerunStart(home_file, away_file, shape, orders) ==
    /\ home_shifts = home_file
    /\ away_shifts = away_file
    /\ boxscore = Some(GameBoxscore(shape.gameType))
    /\ plays = shape.plays
    /\ validate = FALSE
    /\ stage = "rerun"
    /\ timeline = <<>>
    /\ game_info = None
    /\ validation = None
    /\ returned = None
    /\ written = {}
    /\ call_args = Some([orders |-> orders])
    /\ call_result = None
    /\ batch = None
    /\ pipeline_state = None
    /\ i = 1
    /\ tracker = PenaltyTracker(home_team.id, away_team.id)
    /\ previous_situation = None
    /\ in_delayed_penalty_sequence = FALSE
    /\ delayed_penalty_logged = FALSE
    /\ processed_penalty_timestamps = {}
    /\ resolution = None

\* the home file holds 0..MaxSkaters forwards with the same shift, the game
\* has no plays or is PenaltyShotGame, and each of the two runs has its own
\* iteration order
InitRerun ==
    \E k \in 0..MaxSkaters, shape \in {[plays |-> <<>>, gameType |-> 2], PenaltyShotGame} :
        \E first \in IterationOrders, second \in IterationOrders :
            RerunStart([players |-> ForwardLines(k)], AwayLineup, shape,
                       <<first, second>>)

\* one run of generate_timeline on the game's files; call_result collects
\* the timelines of the runs
RunGenerateTimeline ==
    /\ stage = "rerun"
    /\ Len(call_result) < 2
    /\ LET generated == generate_timeline_v2(home_shifts, away_shifts,
                                             boxscore[1], plays)
       IN /\ timeline' = generated.timeline
          /\ game_info' = Some(generated.game_info)
          /\ call_result' = Append(call_result, generated.timeline)
    /\ UNCHANGED <<plays, home_shifts, away_shifts, boxscore, stage, validate,
                   validation, returned, written, call_args, scanVars, driverVars>>

\* another game goes through generate_timeline between the runs: the teams'
\* files swapped, a playoff game with one faceoff.  Nothing but the locals
\* of that call is written
RunAnotherGame ==
    /\ stage = "rerun"
    /\ Len(call_result) < 2
    /\ LET generated ==
               generate_timeline_v2(away_shifts, home_shifts, GameBoxscore(3),
                   <<PlayWithCode("faceoff", 1, <<0, 0>>, FiveOnFive)>>)
       IN /\ timeline' = generated.timeline
          /\ game_info' = Some(generated.game_info)
    /\ UNCHANGED <<plays, home_shifts, away_shifts, boxscore, stage, validate,
                   validation, returned, written, callVars, scanVars, driverVars>>

NextRerun ==
    \/ RunGenerateTimeline
    \/ RunAnotherGame

SpecRerun == InitRerun /\ [][NextRerun]_vars

\* ====================================================================
\* v2/timelines/generate_timeline.py: main in batch mode, and
\* v2/orchestrator/state.py
\* ====================================================================

\* neither generator nor a call of a pure function is under way
GeneratorsIdle(at_stage) ==
    /\ plays = <<>>
    /\ timeline = <<>>
    /\ i = 1
    /\ tracker = PenaltyTracker(home_team.id, away_team.id)
    /\ previous_situation = None
    /\ in_delayed_penalty_sequence = FALSE
    /\ delayed_penalty_logged = FALSE
    /\ processed_penalty_timestamps = {}
    /\ resolution = None
    /\ home_shifts = [players |-> <<>>]
    /\ away_shifts = [players |-> <<>>]
    /\ boxscore = None
    /\ stage = at_stage
    /\ game_info = None
    /\ validate = TRUE
    /\ validation = None
    /\ returned = None
    /\ written = {}
    /\ call_args = None
    /\ call_result = None

\* main with the arguments start, end, season: the counters are 0 and the
\* loop is at start.  end may be below start
InitBatch ==
    \E start \in 1..MaxGames, end \in 1..MaxGames :
        /\ GeneratorsIdle("batch")
        /\ pipeline_state = None
        /\ batch = [start |-> start, end |-> end, game_num |-> start,
                    succeeded |-> 0, failed |-> 0, attempted |-> <<>>,
                    errors_printed |-> <<>>, exit_status |-> None]

\* what a call of process_game can end in: it returns True after writing
\* the two files, returns False (validation mismatch, file not found), or
\* raises the exception it caught
ProcessGameOutcomes == {"True", "False", "Exception"}

\* a variant of the loop body without the try: the exception ends main with
\* a traceback and the status 1
ProcessNextGame_unguarded ==
    /\ batch # None
    /\ batch.exit_status = None
    /\ batch.game_num <= batch.end
    /\ \E outcome \in ProcessGameOutcomes :
        /\ returned' = IF outcome = "Exception" THEN None ELSE Some(outcome = "True")
        /\ written' = IF outcome = "True"
                      THEN written \cup {<<batch.game_num, "json">>, <<batch.game_num, "csv">>}
                      ELSE written
        /\ batch' = IF outcome = "Exception"
                    THEN [batch EXCEPT !.attempted = Append(@, batch.game_num),
                                       !.exit_status = Some(1)]
                    ELSE [batch EXCEPT
                            !.attempted = Append(@, batch.game_num),
                            !.succeeded = IF outcome = "True" THEN @ + 1 ELSE @,
                            !.failed = IF outcome = "True" THEN @ ELSE @ + 1,
                            !.game_num = @ + 1]
    /\ UNCHANGED <<plays, timeline, scanVars, home_shifts, away_shifts, boxscore,
                   stage, game_info, validate, validation, callVars, pipeline_state>>

\* one pass of the loop body: process_game(game_num, season) inside the try
ProcessNextGame ==
    /\ batch # None
    /\ batch.exit_status = None
    /\ batch.game_num <= batch.end
    /\ \E outcome \in ProcessGameOutcomes :
        /\ returned' = IF outcome = "Exception" THEN None ELSE Some(outcome = "True")
        /\ written' = IF outcome = "True"
                      THEN written \cup {<<batch.game_num, "json">>, <<batch.game_num, "csv">>}
                      ELSE written
        /\ batch' = [batch EXCEPT
                        !.attempted = Append(@, batch.game_num),
                        !.succeeded = IF outcome = "True" THEN @ + 1 ELSE @,
                        !.failed = IF outcome = "True" THEN @ ELSE @ + 1,
                        !.errors_printed = IF outcome = "Exception"
                                           THEN Append(@, batch.game_num) ELSE @,
                        !.game_num = @ + 1]
    /\ UNCHANGED <<plays, timeline, scanVars, home_shifts, away_shifts, boxscore,
                   stage, game_info, validate, validation, callVars, pipeline_state>>

\* after the loop: sys.exit(0 if failed == 0 else 1)
BatchExit ==
    /\ batch # None
    /\ batch.exit_status = None
    /\ batch.game_num > batch.end
    /\ batch' = [batch EXCEPT !.exit_status = Some(IF batch.failed = 0 THEN 0 ELSE 1)]
    /\ UNCHANGED <<sharedVars, scanVars, gameVars, callVars, pipeline_state>>

NextBatch ==
    \/ ProcessNextGame
    \/ BatchExit

SpecBatch == InitBatch /\ [][NextBatch]_vars

\* ====================================================================
\* v2/orchestrator/state.py
\* ====================================================================

\* the game IDs and stages (two of STAGES) the modelled calls pass
GameIds == {"2025020001", "2025020002"}

StageArgs == {"fetch", "timeline"}

\* status and error of the modelled set_game_stage calls: an error message,
\* empty or not, comes with the status failed only
StatusArgs ==
    {<<"complete", None>>, <<"skipped", None>>, <<"pending", None>>,
     <<"failed", None>>, <<"failed", Some("")>>, <<"failed", Some("Empty response")>>}

\* PipelineState.__init__ when the state file does not exist
NewPipelineState(season) ==
    [season |-> season, last_schedule_check |-> None, games |-> <<>>]

\* the place of a game in the games dict, 0 when the game is not known
game_index(games, game_id) ==
    IF \E k \in DOMAIN games : games[k].game_id = game_id
    THEN CHOOSE k \in DOMAIN games : games[k].game_id = game_id
    ELSE 0

\* if game_id not in self._data["games"]: self._data["games"][game_id] = {}
with_game(games, game_id) ==
    IF game_index(games, game_id) = 0
    THEN Append(games, [game_id |-> game_id, scheduled_date |-> None,
                        stages |-> [s \in {} |-> None]])
    ELSE games

\* game_data.get(stage)
stage_data_of(game_data, stage_arg) ==
    IF stage_arg \in DOMAIN game_data.stages
    THEN Some(game_data.stages[stage_arg])
    ELSE None

set_game_stage(state, game_id, stage_arg, status, error) ==
    LET games == with_game(state.games, game_id)
        k == game_index(games, game_id)
        entry == [status |-> status, timestamp |-> "2026-01-01T06:00:00",
                  error |-> IF error = None \/ error = Some("") THEN None ELSE error]
    IN  [state EXCEPT !.games =
            [games EXCEPT ![k].stages =
                [s \in DOMAIN @ \cup {stage_arg} |->
                    IF s = stage_arg THEN entry ELSE @[s]]]]

set_scheduled_date(state, game_id, date_str) ==
    LET games == with_game(state.games, game_id)
        k == game_index(games, game_id)
    IN  [state EXCEPT !.games = [games EXCEPT ![k].scheduled_date = Some(date_str)]]

\* a variant that returns only the games whose stage failed or was skipped
games_needing_stage_retry_only(state, stage_arg) ==
    LET needing == SelectSeq(state.games,
            LAMBDA game_data :
                LET stage_data == stage_data_of(game_data, stage_arg)
                IN  /\ stage_data # None
                    /\ stage_data[1].status \in {"failed", "skipped"})
    IN  [k \in DOMAIN needing |-> needing[k].game_id]

\* the games in the order of the dict, those kept whose stage entry is
\* missing or has the status failed or skipped
games_needing_stage(state, stage_arg) ==
    LET needing == SelectSeq(state.games,
            LAMBDA game_data :
                LET stage_data == stage_data_of(game_data, stage_arg)
                IN  \/ stage_data = None
                    \/ stage_data[1].status \in {"failed", "skipped"})
    IN  [k \in DOMAIN needing |-> needing[k].game_id]

\* PipelineState(path, season) without a state file
InitPipeline ==
    /\ GeneratorsIdle("pipeline")
    /\ batch = None
    /\ pipeline_state = NewPipelineState("2025")

SetGameStage ==
    \E game_id \in GameIds, stage_arg \in StageArgs, args \in StatusArgs :
        /\ pipeline_state' = set_game_stage(pipeline_state, game_id, stage_arg,
                                            args[1], args[2])
        /\ call_args' = Some([method |-> "set_game_stage", game_id |-> game_id,
                              stage |-> stage_arg, status |-> args[1]])
        /\ call_result' = None
        /\ UNCHANGED <<sharedVars, scanVars, gameVars, batch>>

SetScheduledDate ==
    \E game_id \in GameIds, date_str \in {"2025-10-05"} :
        /\ pipeline_state' = set_scheduled_date(pipeline_state, game_id, date_str)
        /\ call_args' = Some([method |-> "set_scheduled_date", game_id |-> game_id,
                              stage |-> "scheduled_date", status |-> date_str])
        /\ call_result' = None
        /\ UNCHANGED <<sharedVars, scanVars, gameVars, batch>>

GamesNeedingStage ==
    \E stage_arg \in StageArgs :
        /\ call_args' = Some([method |-> "games_needing_stage", game_id |-> "",
                              stage |-> stage_arg, status |-> ""])
        /\ call_result' = Some(games_needing_stage(pipeline_state, stage_arg))
        /\ UNCHANGED <<sharedVars, scanVars, gameVars, batch, pipeline_state>>

NextPipeline == SetGameStage \/ SetScheduledDate \/ GamesNeedingStage

SpecPipeline == InitPipeline /\ [][NextPipeline]_vars

\* ====================================================================
\* v1/onice/process_shifts.py
\* ====================================================================
PERIOD_LENGTH_REGULATION == 1200

PERIOD_LENGTH_OT_REGULAR == 300

\* time_to_seconds of the shift processor: an empty string is 0
time_to_seconds_onice(time_str) ==
    IF time_str = <<>> THEN 0 ELSE time_str[1] * 60 + time_str[2]

\* calculate_game_seconds of the shift processor: every period has one data
\* point more than it has seconds
calculate_game_seconds_onice(period, seconds_into_period) ==
    IF period <= 3
    THEN (period - 1) * (PERIOD_LENGTH_REGULATION + 1) + seconds_into_period
    ELSE IF period = 4
    THEN 3 * (PERIOD_LENGTH_REGULATION + 1) + seconds_into_period
    ELSE 3 * (PERIOD_LENGTH_REGULATION + 1) + (PERIOD_LENGTH_OT_REGULAR + 1)
         + (period - 5) * (PERIOD_LENGTH_REGULATION + 1) + seconds_into_period

\* the last second of a period that a shift can cover
period_max(period) ==
    IF period <= 3 THEN PERIOD_LENGTH_REGULATION
    ELSE IF period = 4 THEN PERIOD_LENGTH_OT_REGULAR
    ELSE PERIOD_LENGTH_REGULATION

\* first pass: a shift that starts a period is added to its second 0
first_pass_seconds(shift) ==
    IF shift.period = 5 THEN {}
    ELSE IF time_to_seconds_onice(shift.startTime) = 0 THEN {0}
    ELSE {}

\* a variant whose second pass begins at the start second itself
second_pass_seconds_from_start(shift) ==
    IF shift.period = 5 THEN {}
    ELSE time_to_seconds_onice(shift.startTime) ..
            Min2(time_to_seconds_onice(shift.endTime), period_max(shift.period))

\* second pass: range(start_seconds + 1, end_seconds + 1) with the end capped
\* at the period's maximum
second_pass_seconds(shift) ==
    IF shift.period = 5 THEN {}
    ELSE (time_to_seconds_onice(shift.startTime) + 1) ..
            Min2(time_to_seconds_onice(shift.endTime), period_max(shift.period))

\* the game_second -> teamId -> set of playerIds dict; only the keys that
\* were written exist.  added holds what the two passes add: the player of
\* a shift to the set of the shift's team at a game second
build_player_timeline(shifts) ==
    LET added ==
            UNION {{<<calculate_game_seconds_onice(shifts[s].period, k),
                      shifts[s].teamId, shifts[s].playerId>> :
                        k \in first_pass_seconds(shifts[s])
                              \cup second_pass_seconds(shifts[s])} :
                   s \in DOMAIN shifts}
        team_ids == {shifts[s].teamId : s \in DOMAIN shifts}
        player_ids == {shifts[s].playerId : s \in DOMAIN shifts}
    IN [game_second \in {a[1] : a \in added} |->
           [team_id \in {t \in team_ids :
                            \E player_id \in player_ids :
                                <<game_second, t, player_id>> \in added} |->
               {player_id \in player_ids :
                   <<game_second, team_id, player_id>> \in added}]]

\* timeline[game_second][team_id] of the defaultdict
player_timeline_get(player_timeline, game_second, team_id) ==
    IF game_second \notin DOMAIN player_timeline THEN {}
    ELSE IF team_id \notin DOMAIN player_timeline[game_second] THEN {}
    ELSE player_timeline[game_second][team_id]

\* identify_starting_goaltenders for one team: of the players with a
\* period-1 shift that starts at "00:00", the one with the largest summed
\* period-1 duration; max() keeps the first of equals in dict order, which
\* is the order of the players' first period-1 shifts.  None when no player
\* starts period 1
identify_starting_goaltender(shifts, team_id) ==
    LET unique_starters ==
            {shifts[s].playerId :
                s \in {k \in DOMAIN shifts :
                          /\ shifts[k].teamId = team_id
                          /\ shifts[k].period = 1
                          /\ shifts[k].startTime = <<0, 0>>
                          /\ shifts[k].detailCode = 0}}
        counted == {k \in DOMAIN shifts :
                       /\ shifts[k].teamId = team_id
                       /\ shifts[k].period = 1
                       /\ shifts[k].playerId \in unique_starters
                       /\ shifts[k].detailCode = 0}
        RECURSIVE sum(_)
        sum(rows) ==
            IF rows = {} THEN 0
            ELSE LET k == Min(rows)
                 IN time_to_seconds_onice(shifts[k].duration) + sum(rows \ {k})
        player_durations(player_id) ==
            sum({k \in counted : shifts[k].playerId = player_id})
        first_shift(player_id) ==
            Min({k \in counted : shifts[k].playerId = player_id})
        best == {player_id \in unique_starters :
                    \A other \in unique_starters :
                        \/ player_durations(other) < player_durations(player_id)
                        \/ /\ player_durations(other) = player_durations(player_id)
                           /\ first_shift(player_id) <= first_shift(other)}
    IN IF unique_starters = {} THEN None
       ELSE Some(CHOOSE player_id \in best : TRUE)

\* the first starter of a period, in the order of the shifts, that is not
\* the given goaltender and whose shift lasts more than 120 seconds
new_goaltender_rows(shifts, team_id, period, goaltender) ==
    {k \in DOMAIN shifts :
        /\ shifts[k].teamId = team_id
        /\ shifts[k].detailCode = 0
        /\ shifts[k].period = period
        /\ shifts[k].startTime = <<0, 0>>
        /\ shifts[k].playerId # goaltender
        /\ time_to_seconds_onice(shifts[k].duration) > 120}

\* detect_goaltender_changes: the period -> goaltender dict of the periods
\* 1..4.  Every period's starters are compared with the starting
\* goaltender; a change is written to the period and to all later ones, and
\* a later period's change overwrites it
detect_goaltender_changes(shifts, team_id, starting_goaltender) ==
    LET RECURSIVE from(_, _)
        from(period, running) ==
            IF period > 4 THEN <<>>
            ELSE LET rows == new_goaltender_rows(shifts, team_id, period,
                                                 starting_goaltender)
                     now == IF period = 1 \/ rows = {} THEN running
                            ELSE shifts[Min(rows)].playerId
                 IN <<now>> \o from(period + 1, now)
    IN from(1, starting_goaltender)

\* goaltender_ids of build_goaltender_timeline: the players of the dict
goaltender_ids_of(period_goaltenders) ==
    {period_goaltenders[period] : period \in DOMAIN period_goaltenders}

\* ====================================================================
\* calls of the pure functions
\* ====================================================================

\* one call of a pure function with the given arguments, nothing else
\* going on
CallStart(arguments) ==
    /\ call_args = Some(arguments)
    /\ call_result = None
    /\ batch = None
    /\ pipeline_state = None
    /\ plays = <<>>
    /\ timeline = <<>>
    /\ i = 1
    /\ tracker = PenaltyTracker(home_team.id, away_team.id)
    /\ previous_situation = None
    /\ in_delayed_penalty_sequence = FALSE
    /\ delayed_penalty_logged = FALSE
    /\ processed_penalty_timestamps = {}
    /\ resolution = None
    /\ home_shifts = [players |-> <<>>]
    /\ away_shifts = [players |-> <<>>]
    /\ boxscore = None
    /\ stage = "call"
    /\ game_info = None
    /\ validate = TRUE
    /\ validation = None
    /\ returned = None
    /\ written = {}

\* the call returns
Return(value) ==
    /\ call_result = None
    /\ call_result' = Some(value)
    /\ UNCHANGED <<call_args, sharedVars, scanVars, gameVars, driverVars>>

\* every code of four digits with goaltender flags 0 or 1
InitStrength ==
    \E away_goalie \in 0..1, away_skaters \in 0..9,
       home_skaters \in 0..9, home_goalie \in 0..1 :
        CallStart([code |-> <<DigitChar(away_goalie), DigitChar(away_skaters),
                              DigitChar(home_skaters), DigitChar(home_goalie)>>,
                   away_goalie |-> away_goalie, away_skaters |-> away_skaters,
                   home_skaters |-> home_skaters, home_goalie |-> home_goalie])

CallSituationcodeToStrength ==
    Return(situationcode_to_strength(call_args[1].code))

SpecStrength == InitStrength /\ [][CallSituationcodeToStrength]_vars

\* the periods of a regular-season game and the seconds of one of them, the
\* period-end instant included
PlayedPeriods == 1..4

InstantSeconds(period) ==
    IF period <= 3 THEN {0, 1, 299, 300, 301, 1199, 1200} ELSE {0, 1, 299, 300}

\* two instants of played periods
InitTime ==
    \E p1 \in PlayedPeriods, p2 \in PlayedPeriods :
        \E s1 \in InstantSeconds(p1), s2 \in InstantSeconds(p2) :
            CallStart([first |-> <<p1, s1>>, second |-> <<p2, s2>>])

\* both instants through calculate_game_seconds of the event scan and back
\* through game_seconds_to_period_time, and through calculate_game_seconds
\* of the shift processor
CallCalculateGameSeconds ==
    LET a == call_args[1]
        first == calculate_game_seconds(a.first[1], a.first[2])
        second == calculate_game_seconds(a.second[1], a.second[2])
    IN  Return([game_seconds |-> <<first, second>>,
                period_time |-> <<game_seconds_to_period_time(first),
                                  game_seconds_to_period_time(second)>>,
                game_seconds_onice |->
                    <<calculate_game_seconds_onice(a.first[1], a.first[2]),
                      calculate_game_seconds_onice(a.second[1], a.second[2])>>])

SpecTime == InitTime /\ [][CallCalculateGameSeconds]_vars

\* a row of the shift chart, already filtered to detailCode 0
ShiftRow(player_id, team_id, period, start_time, end_time) ==
    [playerId |-> player_id, teamId |-> team_id, period |-> period,
     startTime |-> start_time, endTime |-> end_time, detailCode |-> 0]

\* the first shift of a call: a regulation period, the regular-season
\* overtime, the shootout and a later period; a start that is empty, at the
\* period's start or later; an end inside the period, at its end or past it
FirstShiftPeriods == {1, 4, 5, 6}

FirstShiftStarts == {<<>>, <<0, 0>>, <<0, 1>>, <<4, 59>>}

FirstShiftEnds == {<<0, 0>>, <<0, 2>>, <<5, 0>>, <<5, 1>>, <<20, 1>>}

\* the same two shifts as the home team's shift file of the v2 generator:
\* the player 100 + n wears the number n, an empty time is a missing one
ShiftFileOf(shifts) ==
    LET numbers == Sorted({shifts[s].playerId - 100 : s \in DOMAIN shifts})
        time(t) == IF t = <<>> THEN None ELSE Some(t)
        shifts_of(n) == Sorted({s \in DOMAIN shifts : shifts[s].playerId = 100 + n})
    IN [players |->
           [p \in DOMAIN numbers |->
               FilePlayer(Some(numbers[p]),
                          [k \in DOMAIN shifts_of(numbers[p]) |->
                              Shift(shifts[shifts_of(numbers[p])[k]].period,
                                    shifts[shifts_of(numbers[p])[k]].startTime,
                                    shifts[shifts_of(numbers[p])[k]].endTime)],
                          <<0, 0>>)]]

\* two shifts of the home team: the second one is the same player's or a
\* teammate's, in the same period or in the overtime, and starts when the
\* first one ends or with the period
InitShifts ==
    \E period \in FirstShiftPeriods, start \in FirstShiftStarts,
       end \in FirstShiftEnds :
        \E player \in {101, 102}, next_period \in {period, 4},
           next_start \in {end, <<0, 0>>}, next_end \in {<<5, 1>>, <<20, 1>>} :
            CallStart(<<ShiftRow(101, home_team.id, period, start, end),
                        ShiftRow(player, home_team.id, next_period,
                                 next_start, next_end)>>)

\* the shifts through build_player_timeline of the shift processor and,
\* as a shift file, through process_shifts of the v2 generator
CallBuildPlayerTimeline ==
    Return([player_timeline |-> build_player_timeline(call_args[1]),
            seconds_data |->
                process_shifts(ShiftFileOf(call_args[1]),
                               build_player_mapping(GameBoxscore(2)).home, {})])

SpecShifts == InitShifts /\ [][CallBuildPlayerTimeline]_vars

\* a row of the shift chart as the goaltender functions read it
DurationRow(player_id, team_id, period, start_time, duration) ==
    [playerId |-> player_id, teamId |-> team_id, period |-> period,
     startTime |-> start_time, duration |-> duration, detailCode |-> 0]

\* period 1 of the home team: the goaltender 130 plays it all, the skater
\* 101 starts it with two shifts
FirstPeriodRows ==
    <<DurationRow(101, home_team.id, 1, <<0, 0>>, <<0, 45>>),
      DurationRow(130, home_team.id, 1, <<0, 0>>, <<20, 0>>),
      DurationRow(101, home_team.id, 1, <<2, 0>>, <<0, 50>>)>>

\* who starts a later period at 00:00: nobody; the goaltender 130 or 131 for
\* the whole period; 131 for exactly 120 seconds; a skater with a short
\* shift before 131; 131 for 121 seconds before a third goaltender
PeriodStarters(period) ==
    {<<>>,
     <<DurationRow(130, home_team.id, period, <<0, 0>>, <<20, 0>>)>>,
     <<DurationRow(131, home_team.id, period, <<0, 0>>, <<20, 0>>)>>,
     <<DurationRow(131, home_team.id, period, <<0, 0>>, <<2, 0>>)>>,
     <<DurationRow(101, home_team.id, period, <<0, 0>>, <<0, 45>>),
       DurationRow(131, home_team.id, period, <<0, 0>>, <<20, 0>>)>>,
     <<DurationRow(131, home_team.id, period, <<0, 0>>, <<2, 1>>),
       DurationRow(132, home_team.id, period, <<0, 0>>, <<20, 0>>)>>}

InitGoaltenders ==
    \E second \in PeriodStarters(2), third \in PeriodStarters(3),
       fourth \in PeriodStarters(4) :
        CallStart(FirstPeriodRows \o second \o third \o fourth)

\* lines 282-301 of build_goaltender_timeline for the home team: the
\* starting goaltender, the goaltender of each period, the goaltender ids
CallDetectGoaltenderChanges ==
    LET starting == identify_starting_goaltender(call_args[1], home_team.id)[1]
        by_period == detect_goaltender_changes(call_args[1], home_team.id, starting)
    IN Return([starting_goaltender |-> starting,
               goaltender_by_period |-> by_period,
               goaltender_ids |-> goaltender_ids_of(by_period)])

SpecGoaltenders == InitGoaltenders /\ [][CallDetectGoaltenderChanges]_vars

\* ------------------------------- v2/orchestrator/tools/validate.py
\* the keys of EXPECTED_FILES in the order of the dict
EXPECTED_FILES == <<"boxscore", "plays", "meta", "shifts_home", "shifts_away">>

\* the texts json.loads accepts among the modelled file contents
JsonDocuments == {"{\"shifts\": []}"}

\* what a raw file can be: absent (None), of size zero, text that is no
\* JSON, or a JSON document
FileContents == {None, Some(""), Some("not json{{{"), Some("{\"shifts\": []}")}

\* not path.exists() or path.stat().st_size == 0
is_missing(content) == content = None \/ content = Some("")

\* json.loads raises JSONDecodeError
fails_to_parse(content) == content[1] \notin JsonDocuments

\* a variant that reports missing files before parse errors
validate_game_missing_first(game_id, files) ==
    LET missing == SelectSeq(EXPECTED_FILES, LAMBDA key : is_missing(files[key]))
        unparsed == SelectSeq(EXPECTED_FILES,
                        LAMBDA key : ~is_missing(files[key]) /\ fails_to_parse(files[key]))
        errors == [k \in DOMAIN unparsed |-> <<unparsed[k], "JSONDecodeError">>]
    IN  IF missing # <<>>
        THEN [status |-> "incomplete", game_id |-> game_id,
              missing |-> missing, errors |-> <<>>]
        ELSE IF errors # <<>>
        THEN [status |-> "invalid", game_id |-> game_id,
              missing |-> missing, errors |-> errors]
        ELSE [status |-> "complete", game_id |-> game_id,
              missing |-> <<>>, errors |-> <<>>]

\* validate_game over the contents of the game's five files
validate_game(game_id, files) ==
    LET missing == SelectSeq(EXPECTED_FILES, LAMBDA key : is_missing(files[key]))
        unparsed == SelectSeq(EXPECTED_FILES,
                        LAMBDA key : ~is_missing(files[key]) /\ fails_to_parse(files[key]))
        errors == [k \in DOMAIN unparsed |-> <<unparsed[k], "JSONDecodeError">>]
    IN  IF errors # <<>>
        THEN [status |-> "invalid", game_id |-> game_id,
              missing |-> missing, errors |-> errors]
        ELSE IF missing # <<>>
        THEN [status |-> "incomplete", game_id |-> game_id,
              missing |-> missing, errors |-> <<>>]
        ELSE [status |-> "complete", game_id |-> game_id,
              missing |-> <<>>, errors |-> <<>>]

InitValidate ==
    \E files \in [{EXPECTED_FILES[k] : k \in DOMAIN EXPECTED_FILES} -> FileContents] :
        CallStart([game_id |-> "2025020001", files |-> files])

CallValidateGame ==
    /\ Return(validate_game(call_args[1].game_id, call_args[1].files))

SpecValidate == InitValidate /\ [][CallValidateGame]_vars

\* C22: two runs of generate_timeline on the same files give the same
\* sequence of entries, the order of the ids in the skater lists included,
\* whatever order each run iterates its sets in and whatever game went
\* through the generator in between
C22_RerunGivesSameTimeline ==
    (stage = "rerun" /\ Len(call_result) = 2) => call_result[1] = call_result[2]

\* C22 witness: two runs that iterate their sets in different orders are
\* done, and the first second has three home skaters in its list
C22_Witness ==
    /\ stage = "rerun"
    /\ Len(call_result) = 2
    /\ call_args[1].orders[1] # call_args[1].orders[2]
    /\ Len(call_result[2]) = 1200
    /\ call_result[2][1].home.skaterCount = 3
    /\ call_result[2][1].home.skaters = <<101, 102, 103>>

\* ====================================================================
\* Properties of the batch driver (v2/timelines/generate_timeline.py main)
\* ====================================================================

\* the games whose output files are written
GamesWritten == {game_num \in 1..(MaxGames + 1) : <<game_num, "json">> \in written}

\* C23: the games attempted so far are start, start + 1, ... in order, each
\* once, and each is counted once: succeeded counts the games whose files
\* were written, failed the others; when main exits every game number of
\* [start, end] has been attempted, succeeded + failed is their number and
\* the exit status is 0 iff no game failed
C23_EveryGameAttemptedOnce ==
    batch # None =>
        /\ batch.attempted = [n \in 1..Len(batch.attempted) |-> batch.start + n - 1]
        /\ batch.succeeded = Cardinality(GamesWritten)
        /\ batch.succeeded + batch.failed = Len(batch.attempted)
        /\ batch.exit_status # None =>
               /\ {batch.attempted[n] : n \in DOMAIN batch.attempted}
                      = batch.start..batch.end
               /\ batch.succeeded + batch.failed
                      = Cardinality(batch.start..batch.end)
               /\ batch.start <= batch.end =>
                      batch.succeeded + batch.failed = batch.end - batch.start + 1
               /\ (batch.exit_status = Some(0)) <=> (GamesWritten = batch.start..batch.end)
               /\ batch.exit_status \in {Some(0), Some(1)}

\* C23 witness: the batch 1..3 has ended with status 1: game 1 raised, game
\* 2 returned False, game 3 was written
C23_Witness ==
    /\ batch # None
    /\ batch.exit_status = Some(1)
    /\ batch.attempted = <<1, 2, 3>>
    /\ batch.errors_printed = <<1>>
    /\ batch.succeeded = 1
    /\ batch.failed = 2
    /\ GamesWritten = {3}

\* a penalty or goal event whose team is neither of the game's teams
Unresolvable(event) ==
    /\ event.typeDescKey \in {"penalty", "goal"}
    /\ event.details.eventOwnerTeamId \notin {home_team.id, away_team.id}

\* C25: the scan fails at a penalty or goal event whose team is neither the
\* home nor the away team: it never gets past such an event, so the event
\* is neither taken for one of the two teams nor passed over
C25_UnresolvableEventStopsScan ==
    \A k \in 1..(i - 1) : ~Unresolvable(plays[k])

\* ====================================================================
\* Properties of the shift processor (v1/onice/process_shifts.py) and of
\* process_shifts of the v2 generator
\* ====================================================================
BuiltTimeline == call_result[1].player_timeline

\* the player is in the set of the team at the key of the period's second
Occupies(player_id, team_id, period, k) ==
    player_id \in player_timeline_get(BuiltTimeline,
                     calculate_game_seconds_onice(period, k), team_id)

RowsOf(player_id, team_id, period) ==
    {s \in DOMAIN call_args[1] :
        /\ call_args[1][s].playerId = player_id
        /\ call_args[1][s].teamId = team_id
        /\ call_args[1][s].period = period}

\* the periods other than the shootout that a shift of the call can be in
NonShootoutPeriods == (FirstShiftPeriods \cup {4}) \ {5}

\* C17: in every period but the shootout, a player occupies second 0 iff one
\* of their shifts of that period starts at 0, and second k >= 1 iff one of
\* their shifts of that period has start < k <= min(end, period length);
\* the keys of the periods do not meet, and every player of every key is
\* there for a second 0..length of the period of one of their own shifts, so
\* nothing is occupied past a period's length or in another period (a
\* shootout shift occupies nothing)
C17_OccupancyRule ==
    call_result # None =>
        LET shifts == call_args[1]
            start(s) == time_to_seconds_onice(shifts[s].startTime)
            end(s) == time_to_seconds_onice(shifts[s].endTime)
        IN  /\ \A period \in NonShootoutPeriods, player_id \in {101, 102} :
                   \A k \in 0..period_max(period) :
                       Occupies(player_id, home_team.id, period, k)
                       <=> \E s \in RowsOf(player_id, home_team.id, period) :
                               IF k = 0 THEN start(s) = 0
                               ELSE start(s) < k /\ k <= Min2(end(s), period_max(period))
            /\ \A p \in NonShootoutPeriods, q \in NonShootoutPeriods :
                   p < q => calculate_game_seconds_onice(p, period_max(p))
                                < calculate_game_seconds_onice(q, 0)
            /\ \A game_second \in DOMAIN BuiltTimeline :
                   \A team_id \in DOMAIN BuiltTimeline[game_second] :
                       \A player_id \in BuiltTimeline[game_second][team_id] :
                           \E s \in DOMAIN shifts :
                               /\ shifts[s].playerId = player_id
                               /\ shifts[s].teamId = team_id
                               /\ shifts[s].period # 5
                               /\ game_second - calculate_game_seconds_onice(shifts[s].period, 0)
                                      \in 0..period_max(shifts[s].period)

\* C17 witness: an overtime shift 00:01-05:01 has been built: the player is
\* on at second 300, the overtime's last, and not at second 1, the start
C17_Witness ==
    /\ call_result # None
    /\ call_args[1][1] = ShiftRow(101, home_team.id, 4, <<0, 1>>, <<5, 1>>)
    /\ call_args[1][2].playerId = 102
    /\ call_args[1][2].startTime = <<5, 1>>
    /\ Occupies(101, home_team.id, 4, 300)
    /\ ~Occupies(101, home_team.id, 4, 1)

\* the first shift of the call ends at t > 0 and the second, a teammate's of
\* the same period, starts at t
OnTheFlySubstitution ==
    /\ call_result # None
    /\ call_args[1][2].playerId # call_args[1][1].playerId
    /\ call_args[1][2].teamId = call_args[1][1].teamId
    /\ call_args[1][2].period = call_args[1][1].period
    /\ time_to_seconds_onice(call_args[1][1].endTime) > 0
    /\ call_args[1][2].startTime = call_args[1][1].endTime

\* the skaters of a (period, second) key of process_shifts
SkatersAt(period, sec) ==
    seconds_get(call_result[1].seconds_data, <<period, sec>>).skaters

\* C18: on an on-the-fly substitution at t > 0, in the shift processor
\* (outside the shootout, which it leaves out) and in process_shifts of the
\* v2 generator (when the first shift has a start time), no second of the
\* period has both players on the ice, and every second of the period after
\* the first shift's start and before the second shift's end has one of them
C18_HandoverSecondClaimedOnce ==
    OnTheFlySubstitution =>
        LET first == call_args[1][1]
            second == call_args[1][2]
            from == time_to_seconds_onice(first.startTime)
            to == time_to_seconds_onice(second.endTime)
        IN  /\ first.period # 5 =>
                   \A k \in 0..period_max(first.period) :
                       /\ ~(/\ Occupies(first.playerId, first.teamId, first.period, k)
                            /\ Occupies(second.playerId, first.teamId, first.period, k))
                       /\ from < k /\ k < to =>
                              \/ Occupies(first.playerId, first.teamId, first.period, k)
                              \/ Occupies(second.playerId, first.teamId, first.period, k)
            /\ first.startTime # <<>> =>
                   \A k \in 0..(PERIOD_LENGTH_REGULATION + 1) :
                       /\ ~(/\ first.playerId \in SkatersAt(first.period, k)
                            /\ second.playerId \in SkatersAt(first.period, k))
                       /\ from < k /\ k < to =>
                              \/ first.playerId \in SkatersAt(first.period, k)
                              \/ second.playerId \in SkatersAt(first.period, k)

\* C18 witness: the shift 00:01-05:00 of period 1 is followed by a
\* teammate's 05:00-20:01; second 300 is the first player's in the shift
\* processor and the teammate's in the v2 generator
C18_Witness ==
    /\ OnTheFlySubstitution
    /\ call_args[1][1] = ShiftRow(101, home_team.id, 1, <<0, 1>>, <<5, 0>>)
    /\ call_args[1][2].endTime = <<20, 1>>
    /\ Occupies(101, home_team.id, 1, 300)
    /\ ~Occupies(102, home_team.id, 1, 300)
    /\ SkatersAt(1, 300) = {102}
    /\ SkatersAt(1, 299) = {101}

\* the starters of a period that qualify against a goaltender: another
\* player with a shift from 00:00 of more than 120 seconds
Qualifying(period, goaltender) ==
    {call_args[1][k].playerId :
        k \in {r \in DOMAIN call_args[1] :
                  /\ call_args[1][r].period = period
                  /\ call_args[1][r].startTime = <<0, 0>>
                  /\ call_args[1][r].playerId # goaltender
                  /\ time_to_seconds_onice(call_args[1][r].duration) > 120}}

\* C21: for every period p >= 2, when players other than the goaltender of
\* period p - 1 start period p at 00:00 with a shift of more than 120
\* seconds, one of them is the goaltender of period p, and otherwise the
\* goaltender of period p - 1 is kept; so a starting goaltender who comes
\* back after a replacement is the goaltender again
C21_RunningGoaltenderReplaced ==
    call_result # None =>
        \A period \in 2..4 :
            LET by_period == call_result[1].goaltender_by_period
                running == by_period[period - 1]
            IN IF Qualifying(period, running) # {}
               THEN by_period[period] \in Qualifying(period, running)
               ELSE by_period[period] = running

\* ====================================================================
\* Properties of the event scan (v1/timelines/generate_timeline.py)
\* ====================================================================
Ledger == tracker.active_penalties

\* the number of a team's active penalties in the ledger
ActiveCount(team_id) ==
    Cardinality({k \in DOMAIN Ledger : Ledger[k].active /\ Ledger[k].teamId = team_id})

\* the skater character of a team with n active penalties: 5 - n, never below 3
SkaterChar(n) == IF n = 0 THEN "5" ELSE IF n = 1 THEN "4" ELSE "3"

GoalieChar(in_net) == IF in_net THEN "1" ELSE "0"

\* C4: in every ledger state the tracker's situation code is the four
\* characters away goalie, away skaters, home skaters, home goalie, the
\* skaters being max(3, 5 - active penalties) of that team, and
\* calculate_situation_code puts the away fields first for all goalie flags.
C4_SituationCodeFromLedger ==
    /\ get_current_situation_code(tracker) =
          <<"1", SkaterChar(ActiveCount(away_team.id)),
            SkaterChar(ActiveCount(home_team.id)), "1">>
    /\ \A hg \in BOOLEAN, ag \in BOOLEAN :
          calculate_situation_code(ActiveCount(home_team.id),
                                   ActiveCount(away_team.id), hg, ag)
            = <<GoalieChar(ag), SkaterChar(ActiveCount(away_team.id)),
                SkaterChar(ActiveCount(home_team.id)), GoalieChar(hg)>>

\* C4 witness: three active away penalties and none at home: the floor applies
C4_Witness ==
    /\ ActiveCount(away_team.id) = 3
    /\ ActiveCount(home_team.id) = 0
    /\ get_current_situation_code(tracker) = <<"1", "3", "5", "1">>

\* the penalties of a team and type among those called at one timestamp
Called(all_penalties, team_id, type_code) ==
    {k \in DOMAIN all_penalties :
        all_penalties[k].teamId = team_id /\ all_penalties[k].typeCode = type_code}

NCalled(all_penalties, team_id, type_code) ==
    Cardinality(Called(all_penalties, team_id, type_code))

\* exactly one minor on each team and no major
OneMinorEach(all_penalties) ==
    /\ NCalled(all_penalties, home_team.id, "MIN") = 1
    /\ NCalled(all_penalties, away_team.id, "MIN") = 1
    /\ NCalled(all_penalties, home_team.id, "MAJ") = 0
    /\ NCalled(all_penalties, away_team.id, "MAJ") = 0

\* the state right after a timestamp's penalties were resolved
JustResolved == resolution # None /\ i = resolution[1].index + 1

\* no penalty called earlier is still active
OnlyNewActive ==
    \A k \in DOMAIN Ledger :
        Ledger[k].active => Ledger[k].startTime = resolution[1].current_time

\* C5: one home minor and one away minor called at the same timestamp with
\* no major: both are ledgered, active and served for at least their full
\* duration, and the situation right after is 4-on-4 ("1441").
C5_OneMinorEachIsFourOnFour ==
    (JustResolved /\ OneMinorEach(resolution[1].all_penalties) /\ OnlyNewActive)
    => LET all == resolution[1].all_penalties
       IN  /\ get_current_situation_code(tracker) = <<"1", "4", "4", "1">>
           /\ \A m \in DOMAIN all :
                 all[m].typeCode = "MIN" =>
                    \E k \in DOMAIN Ledger :
                        /\ Ledger[k].eventId = all[m].eventId
                        /\ Ledger[k].teamId = all[m].teamId
                        /\ Ledger[k].active
                        /\ Ledger[k].severity = "MIN"
                        /\ Ledger[k].expiresAt >=
                              resolution[1].current_time + 60 * all[m].duration

\* C5 witness: one minor each plus a misconduct, just resolved, 4-on-4
C5_Witness ==
    /\ JustResolved
    /\ OneMinorEach(resolution[1].all_penalties)
    /\ Len(resolution[1].all_penalties) = 3
    /\ ActiveCount(home_team.id) = 1
    /\ ActiveCount(away_team.id) = 1

\* the ledger entries of a team and severity added at the resolved timestamp
Ledgered(team_id, severity) ==
    {k \in DOMAIN Ledger :
        /\ Ledger[k].teamId = team_id
        /\ Ledger[k].severity = severity
        /\ Ledger[k].eventId \in
              {resolution[1].all_penalties[m].eventId :
                  m \in DOMAIN resolution[1].all_penalties}}

\* C6: outside the one-minor-each case, min(home majors, away majors) majors
\* per team are cancelled, then min(home minors, away minors) minors per
\* team; the remainder is what is tracked, and the ledger receives an entry
\* exactly for the players of the remainder, so that at most one team gets
\* serveable majors and at most one team gets serveable minors.
C6_Rule195Cancellation ==
    (resolution # None /\ ~OneMinorEach(resolution[1].all_penalties))
    => LET all == resolution[1].all_penalties
           track == resolution[1].penalties_to_track
           h == home_team.id
           a == away_team.id
           cmaj == Min2(NCalled(all, h, "MAJ"), NCalled(all, a, "MAJ"))
           cmin == Min2(NCalled(all, h, "MIN"), NCalled(all, a, "MIN"))
       IN  /\ NCalled(track, h, "MAJ") = NCalled(all, h, "MAJ") - cmaj
           /\ NCalled(track, a, "MAJ") = NCalled(all, a, "MAJ") - cmaj
           /\ NCalled(track, h, "MIN") = NCalled(all, h, "MIN") - cmin
           /\ NCalled(track, a, "MIN") = NCalled(all, a, "MIN") - cmin
           /\ Range(track) \subseteq Range(all)
           /\ {Ledger[k].playerId : k \in DOMAIN Ledger} =
                 {track[m].playerId :
                     m \in {n \in DOMAIN track : track[n].typeCode \in {"MIN", "MAJ"}}}
           /\ Ledgered(h, "MAJ") = {} \/ Ledgered(a, "MAJ") = {}
           /\ Ledgered(h, "MIN") = {} \/ Ledgered(a, "MIN") = {}

\* C6 witness: two home minors against one away minor leave one home minor
C6_Witness ==
    /\ resolution # None
    /\ NCalled(resolution[1].all_penalties, home_team.id, "MIN") = 2
    /\ NCalled(resolution[1].all_penalties, away_team.id, "MIN") = 1
    /\ Cardinality(Ledgered(home_team.id, "MIN")) = 1
    /\ Ledgered(away_team.id, "MIN") = {}
    /\ get_current_situation_code(tracker) = <<"1", "5", "4", "1">>

\* the event the scan is at
AtEvent(type) == i <= Len(plays) /\ plays[i].typeDescKey = type

OtherTeam(team_id) == IF team_id = home_team.id THEN away_team.id ELSE home_team.id

\* the scoring team of the goal the scan is at is on a power play: the only
\* active penalty is one minor of the other team that has not run out
PowerPlayOfScorer ==
    LET scorer == plays[i].details.eventOwnerTeamId
        t == EventGameSeconds(plays[i])
        active == {k \in DOMAIN Ledger : Ledger[k].active}
    IN  /\ Cardinality(active) = 1
        /\ \A k \in active :
              /\ Ledger[k].teamId = OtherTeam(scorer)
              /\ Ledger[k].severity = "MIN"
              /\ Ledger[k].expiresAt > t

\* C7: a goal of the team on the power play (one active minor against the
\* other team) ends the power play at the goal: once the goal event is
\* processed the minor is inactive and the situation is even strength,
\* wherever in the scan the goal occurs.
C7_GoalEndsPowerPlay ==
    [][(AtEvent("goal") /\ PowerPlayOfScorer)
        => /\ \A k \in DOMAIN Ledger : ~tracker'.active_penalties[k].active
           /\ get_current_situation_code(tracker') = <<"1", "5", "5", "1">>]_vars

\* the penalties the step releases: active before, inactive after, though
\* their time has not run out at the event
Released(before, after, t) ==
    {k \in DOMAIN before :
        before[k].active /\ ~after[k].active /\ before[k].expiresAt > t}

C9_ExpiredBeforeEveryEvent ==
    [][i <= Len(plays) =>
        \A k \in DOMAIN Ledger :
            Ledger[k].expiresAt <= EventGameSeconds(plays[i])
            => ~tracker'.active_penalties[k].active]_vars

\* the synthetic entries of the ledger penalty with this event id
SyntheticEntriesOf(log, event_id) ==
    {n \in DOMAIN log :
        /\ log[n].isSynthetic
        /\ log[n].penaltyExpiration[1].originalEventId = event_id}

\* C10: a ledgered penalty stays in the ledger, once inactive it is never
\* active again, and it has at most one synthetic penalty-expired entry.
C10_ExpiresOnce ==
    [][/\ \A k \in DOMAIN Ledger :
            /\ k \in DOMAIN tracker'.active_penalties
            /\ tracker'.active_penalties[k].eventId = Ledger[k].eventId
            /\ ~Ledger[k].active => ~tracker'.active_penalties[k].active
       /\ \A k \in DOMAIN tracker'.active_penalties :
            Cardinality(SyntheticEntriesOf(timeline',
                            tracker'.active_penalties[k].eventId)) <= 1]_vars

\* C10 witness: a penalty has its synthetic entry and two later events were
\* logged after it
C10_Witness ==
    \E n \in DOMAIN timeline :
        /\ timeline[n].isSynthetic
        /\ n + 2 <= Len(timeline)
        /\ ~timeline[n + 1].isSynthetic
        /\ ~timeline[n + 2].isSynthetic
        /\ \E k \in DOMAIN Ledger :
              /\ Ledger[k].eventId = timeline[n].penaltyExpiration[1].originalEventId
              /\ ~Ledger[k].active

\* the code of the penalties of a ledger that are active and run past t
CodeOfActivePast(ledger, t) ==
    calculate_situation_code(
        Cardinality({k \in DOMAIN ledger : /\ ledger[k].active
                                           /\ ledger[k].teamId = home_team.id
                                           /\ ledger[k].expiresAt > t}),
        Cardinality({k \in DOMAIN ledger : /\ ledger[k].active
                                           /\ ledger[k].teamId = away_team.id
                                           /\ ledger[k].expiresAt > t}),
        TRUE, TRUE)

\* C11: every synthetic penalty-expired entry a step adds carries, as
\* situationCode_after, the code of the penalties still active right after
\* that penalty's own expiration: a penalty that was active before the step
\* and expires later is still counted.
C11_SyntheticEntryCodeAtItsExpiration ==
    [][\A n \in (Len(timeline) + 1)..Len(timeline') :
          timeline'[n].isSynthetic
          => timeline'[n].situationCode_after =
                CodeOfActivePast(Ledger, timeline'[n].secondsElapsedGame)]_vars

\* the entry of a real event is the last of a log
LoggedLast(log, event, is_delayed) ==
    /\ log # <<>>
    /\ ~log[Len(log)].isSynthetic
    /\ log[Len(log)].eventId = event.eventId
    /\ log[Len(log)].eventType = event.typeDescKey
    /\ log[Len(log)].isDelayedPenalty = is_delayed

\* a penalty event of the log was resolved with its timestamp: either the
\* step resolves it now, or an earlier penalty event of the same timestamp
\* did, with no event of another time in between
ResolvedWithItsTimestamp(k) ==
    IF timestamp_key(plays[k]) \notin processed_penalty_timestamps
    THEN /\ resolution' # None
         /\ resolution'[1].index = k
         /\ plays[k].eventId \in {resolution'[1].all_penalties[m].eventId :
                                     m \in DOMAIN resolution'[1].all_penalties}
         /\ {tracker'.active_penalties[m].playerId :
                m \in (Len(Ledger) + 1)..Len(tracker'.active_penalties)}
            = {resolution'[1].penalties_to_track[m].playerId :
                m \in {n \in DOMAIN resolution'[1].penalties_to_track :
                         resolution'[1].penalties_to_track[n].typeCode \in {"MIN", "MAJ"}}}
         /\ SubSeq(tracker'.active_penalties, 1, Len(Ledger)) = Ledger
    ELSE /\ tracker' = tracker
         /\ \E j \in 1..(k - 1) :
               /\ plays[j].typeDescKey = "penalty"
               /\ timestamp_key(plays[j]) = timestamp_key(plays[k])
               /\ \A m \in j..k : plays[m].timeInPeriod = plays[k].timeInPeriod

\* C12: from a delayed-penalty event until the next faceoff the log
\* receives only the announcement of a delayed-penalty event and the
\* terminating faceoff; every penalty event inside the sequence is resolved
\* and its net result ledgered; the faceoff ends the sequence, and outside
\* a sequence a period-start, period-end or faceoff event is logged again.
C12_DelayedSequenceLogging ==
    [][i <= Len(plays) =>
        LET event == plays[i]
            type == event.typeDescKey
        IN  IF in_delayed_penalty_sequence \/ type = "delayed-penalty"
            THEN /\ type = "delayed-penalty" =>
                       /\ Len(timeline') = Len(timeline) + 1
                       /\ SubSeq(timeline', 1, Len(timeline)) = timeline
                       /\ LoggedLast(timeline', event, TRUE)
                       /\ in_delayed_penalty_sequence'
                 /\ type = "faceoff" =>
                       /\ Len(timeline') = Len(timeline) + 1
                       /\ SubSeq(timeline', 1, Len(timeline)) = timeline
                       /\ LoggedLast(timeline', event, FALSE)
                       /\ ~in_delayed_penalty_sequence'
                 /\ type \notin {"delayed-penalty", "faceoff"} =>
                       /\ timeline' = timeline
                       /\ in_delayed_penalty_sequence'
                 /\ type = "penalty" => ResolvedWithItsTimestamp(i)
            ELSE /\ ~in_delayed_penalty_sequence'
                 /\ type \in {"period-start", "period-end", "faceoff"}
                       => LoggedLast(timeline', event, FALSE)]_vars

\* C12 witness: a delayed-penalty event, a penalty and a faceoff were
\* scanned: the log holds the announcement and the faceoff, the penalty is
\* in the ledger and the sequence is over
C12_Witness ==
    /\ i = 4
    /\ plays[1].typeDescKey = "delayed-penalty"
    /\ plays[2].typeDescKey = "penalty"
    /\ plays[3].typeDescKey = "faceoff"
    /\ Len(timeline) = 2
    /\ timeline[1].isDelayedPenalty
    /\ timeline[2].eventType = "faceoff"
    /\ Len(Ledger) = 1
    /\ Ledger[1].eventId = 2
    /\ ~in_delayed_penalty_sequence

\* the ledger a tracker that was empty has after the first timestamp of a
\* log was resolved, or the empty ledger of a log with no event
LedgerOfFirstTimestamp(log) ==
    IF log = <<>> THEN <<>>
    ELSE process_penalties_at_time(log, 1, PenaltyTracker(home_team.id, away_team.id),
                                   EventGameSeconds(log[1]),
                                   home_team.id, away_team.id).tracker.active_penalties

\* how many penalties of a ledger count against a team and run until a time
CountedUntil(ledger, team_id, expires_at) ==
    Cardinality({k \in DOMAIN ledger :
        ledger[k].teamId = team_id /\ ledger[k].expiresAt = expires_at})

\* C13: the penalties called at one timestamp leave, team by team, as many
\* counted penalties with the same expiration times as the same penalties
\* without the misconducts do (SpecResolve: the log is one such group).
C13_MisconductChangesNothing ==
    i > 1 =>
        LET without == SelectSeq(plays, LAMBDA e : e.details.typeCode # "MIS")
            expected == LedgerOfFirstTimestamp(without)
        IN  \A team_id \in {home_team.id, away_team.id} :
                \A t \in {Ledger[k].expiresAt : k \in DOMAIN Ledger}
                         \cup {expected[k].expiresAt : k \in DOMAIN expected} :
                    CountedUntil(Ledger, team_id, t) = CountedUntil(expected, team_id, t)

\* the index of the example's penalty event
CalledAt == CHOOSE k \in DOMAIN plays : plays[k].typeDescKey = "penalty"

SyntheticEntries(log) == {n \in DOMAIN log : log[n].isSynthetic}

\* how many active penalties a ledger counts against the home team
HomeShort(ledger) ==
    Cardinality({k \in DOMAIN ledger :
        ledger[k].active /\ ledger[k].teamId = home_team.id})

Sides == {"home", "away"}

OnIce(entry, side) == IF side = "home" THEN entry.home ELSE entry.away

FileOf(side) == IF side = "home" THEN home_shifts ELSE away_shifts

MappingOf(side) ==
    IF side = "home" THEN build_player_mapping(boxscore[1]).home
    ELSE build_player_mapping(boxscore[1]).away

GoalieIdsOf(side) ==
    IF side = "home" THEN get_goalie_ids(boxscore[1]).home
    ELSE get_goalie_ids(boxscore[1]).away

\* the appearances of a player ID in the timeline: the seconds and sides
\* where it is among the skaters or in the goaltender slot
Appearances(player_id) ==
    Cardinality({x \in (DOMAIN timeline) \X Sides :
        \/ player_id \in Range(OnIce(timeline[x[1]], x[2]).skaters)
        \/ OnIce(timeline[x[1]], x[2]).goalie = Some(player_id)})

ListedTOI(side, p) == parse_toi_to_seconds(FileOf(side).players[p].gameTotals.toi)

\* a listed player's seconds in the timeline: a player with no player ID
\* (no jersey number, or one the boxscore does not list) is in no entry
SecondsPresent(side, p) ==
    IF p \in mapped_players(FileOf(side), MappingOf(side))
    THEN Appearances(MappingOf(side)[FileOf(side).players[p].number[1]])
    ELSE 0

Accepted == validate /\ returned = Some(TRUE)

\* C1 (as stated): process_game with validation accepts a game, and
\* validate_toi reports success, only if every player listed in either
\* team's shift file is in the timeline for exactly gameTotals.toi seconds
C1_EveryListedPlayerConserved ==
    (Accepted \/ (validation # None /\ validation[1].success))
        => \A side \in Sides : \A p \in DOMAIN FileOf(side).players :
               SecondsPresent(side, p) = ListedTOI(side, p)

\* C1 (amended): process_game with validation accepts a game only if every
\* listed player whose jersey number the boxscore maps to a player ID has
\* that ID in the timeline exactly gameTotals.toi times; one such player
\* with a discrepancy makes validate_toi report failure, and the game is
\* then not accepted and nothing is written
C1_EveryMappedPlayerConserved ==
    LET conserved == \A side \in Sides :
                        \A p \in mapped_players(FileOf(side), MappingOf(side)) :
                            SecondsPresent(side, p) = ListedTOI(side, p)
    IN /\ Accepted => conserved
       /\ validation # None =>
            /\ validation[1].success => conserved
            /\ ~conserved => (~validation[1].success /\ returned = Some(FALSE)
                              /\ written = {})

\* C1 witness: validate_toi has failed a game for the discrepancy of one
\* mapped player, an away one, and process_game has returned False
C1_Witness ==
    /\ validation # None
    /\ ~validation[1].success
    /\ Len(validation[1].errors) = 1
    /\ validation[1].errors[1].team_type = "away"
    /\ validation[1].errors[1].actual_toi = validation[1].errors[1].expected_toi + 1
    /\ returned = Some(FALSE)

ShiftsOf(side, are_goalies) ==
    LET players == FileOf(side).players
        mapping == MappingOf(side)
        goalie_ids == GoalieIdsOf(side)
        listed == {p \in mapped_players(FileOf(side), mapping) :
                      (mapping[players[p].number[1]] \in goalie_ids) = are_goalies}
    IN UNION {{<<mapping[players[p].number[1]], players[p].shifts[s].period,
                 time_to_seconds_v2(players[p].shifts[s].startTime),
                 time_to_seconds_v2(players[p].shifts[s].endTime)>> :
                   s \in {t \in DOMAIN players[p].shifts :
                             /\ players[p].shifts[t].startTime # None
                             /\ players[p].shifts[t].endTime # None}} :
              p \in listed}

\* the players of some shifts with a shift over a second of a period
PlayersWithShiftOver(shifts, period, sec) ==
    {x[1] : x \in {y \in shifts : y[2] = period /\ y[3] <= sec /\ sec < y[4]}}

SkaterDigits == {"3", "4", "5"}

\* C3 (as stated): in every second whose situation code is not a
\* penalty-shot code, the away and the home skater digit are in {3,4,5}
C3_SkaterDigitsThreeToFive ==
    \A n \in DOMAIN timeline :
        timeline[n].situationCode \notin PenaltyShotCodes
            => /\ timeline[n].situationCode[2] \in SkaterDigits
               /\ timeline[n].situationCode[3] \in SkaterDigits

\* C3 (amended): in every second whose situation code is not a
\* penalty-shot code, the code has four characters and its away and home
\* skater digits are the numbers of away and home skaters of the entry as
\* they are (0 in a second no shift covers, 6 with an extra attacker),
\* nothing bringing them into {3,4,5}
C3_SkaterDigitsAreTheCounts ==
    \A n \in DOMAIN timeline :
        timeline[n].situationCode \notin PenaltyShotCodes
            => /\ Len(timeline[n].situationCode) = 4
               /\ timeline[n].situationCode[2] = DigitChar(timeline[n].away.skaterCount)
               /\ timeline[n].situationCode[3] = DigitChar(timeline[n].home.skaterCount)
               /\ timeline[n].away.skaterCount = Len(timeline[n].away.skaters)
               /\ timeline[n].home.skaterCount = Len(timeline[n].home.skaters)

\* C3 witness: a second with six home skaters and no home goaltender against
\* five away skaters, coded 1560
C3_Witness ==
    \E n \in DOMAIN timeline :
        /\ timeline[n].situationCode = <<"1", "5", "6", "0">>
        /\ timeline[n].home.skaterCount = 6
        /\ timeline[n].home.goalie = None
        /\ timeline[n].away.skaterCount = 5

Generated == stage \in {"validate", "write", "done"} /\ game_info # None

\* the period of a play is played and is not the shootout
InPlayedPeriod(play) ==
    /\ play.period >= 1
    /\ play.period <= game_info[1].numPeriods
    /\ ~(play.period = 5 /\ ~game_info[1].isPlayoff)

\* the timeline entries of a period and second
EntriesAt(period, sec) ==
    {n \in DOMAIN timeline :
        timeline[n].period = period /\ timeline[n].secondsIntoPeriod = sec}

\* C15: whenever a play of a played period that is not the shootout, in a
\* regular-season or a playoff game, records the code 0101 or 1010, the
\* timeline entry of its period and second carries that code (stated for
\* the events that are not period-end or game-end events).
C15_PenaltyShotCodeVerbatim ==
    Generated =>
        \A k \in DOMAIN plays :
            (/\ plays[k].situationCode \in PenaltyShotCodes
             /\ plays[k].typeDescKey \notin {"period-end", "game-end"}
             /\ InPlayedPeriod(plays[k]))
            => /\ EntriesAt(plays[k].period,
                            time_to_seconds_v2(plays[k].timeInPeriod)) # {}
               /\ \A n \in EntriesAt(plays[k].period,
                                     time_to_seconds_v2(plays[k].timeInPeriod)) :
                     timeline[n].situationCode = plays[k].situationCode

\* the periods with entries: 1..numPeriods without the shootout
PeriodsWithEntries ==
    {period \in 1..game_info[1].numPeriods :
        ~(period = 5 /\ ~game_info[1].isPlayoff)}

\* the length the statement gives a period
StatedLength(period) ==
    IF period <= 3 THEN 1200
    ELSE IF game_info[1].gameType = 3 THEN 1200
    ELSE 300

\* the seconds of the periods with entries before a period: every earlier
\* one has 1200 seconds in the games that have this period
StatedSecondsBefore(period) == (period - 1) * 1200

\* C20: the timeline holds, for the periods 1..numPeriods in increasing
\* order and without the shootout of a regular-season game, one entry for
\* each second 0..length-1 (1200 for periods 1-3, 300 for a regular-season
\* period 4, 1200 for every playoff period) and nothing else, and the
\* secondsElapsedGame of the n-th entry is n - 1
C20_OneEntryPerSecond ==
    Generated =>
        /\ \A period \in PeriodsWithEntries :
               \A sec \in 0..(StatedLength(period) - 1) :
                   /\ StatedSecondsBefore(period) + sec + 1 \in DOMAIN timeline
                   /\ timeline[StatedSecondsBefore(period) + sec + 1].period = period
                   /\ timeline[StatedSecondsBefore(period) + sec + 1].secondsIntoPeriod = sec
        /\ Len(timeline) =
               IF PeriodsWithEntries = {} THEN 0
               ELSE StatedSecondsBefore(Max(PeriodsWithEntries))
                        + StatedLength(Max(PeriodsWithEntries))
        /\ \A n \in DOMAIN timeline : timeline[n].secondsElapsedGame = n - 1

\* C20 witness: a regular-season game with overtime and a shootout has been
\* generated: 3900 entries, the last one second 299 of period 4
C20_Witness ==
    /\ Generated
    /\ ~game_info[1].isPlayoff
    /\ game_info[1].numPeriods = 5
    /\ Len(timeline) = 3900
    /\ timeline[3900].period = 4
    /\ timeline[3900].secondsIntoPeriod = 299
    /\ timeline[3601].secondsIntoPeriod = 0

\* C24: from the step in which validate_toi finds a mismatch on, the
\* timeline is what generate_timeline built, process_game has returned
\* False, and neither the JSON nor the CSV file is written
C24_MismatchFailsWithoutOutput ==
    [][(validation' # None /\ ~validation'[1].success)
          => /\ timeline' = timeline
             /\ returned' = Some(FALSE)
             /\ written' = {}]_vars

\* C24 witness: a game with a generated timeline has failed validation
C24_Witness ==
    /\ Generated
    /\ validation # None
    /\ ~validation[1].success
    /\ validation[1].errors # <<>>
    /\ Len(timeline) = 1200
    /\ returned = Some(FALSE)
    /\ written = {}

\* C16: the strength of a code that is not a penalty-shot code is
\* "<higher>v<lower>" of the two skater counts, each less one iff the
\* team's goaltender flag is 0; the code with the home and away halves
\* swapped has the same strength; 0101 and 1010 give "N/A".
C16_StrengthIsTeamAgnostic ==
    call_result # None =>
        LET a == call_args[1]
            away == a.away_skaters - (IF a.away_goalie = 0 THEN 1 ELSE 0)
            home == a.home_skaters - (IF a.home_goalie = 0 THEN 1 ELSE 0)
            swapped == <<a.code[4], a.code[3], a.code[2], a.code[1]>>
        IN  IF a.code \in {<<"0", "1", "0", "1">>, <<"1", "0", "1", "0">>}
            THEN call_result[1] = <<"N", "/", "A">>
            ELSE /\ call_result[1] = IntToStr(IF away >= home THEN away ELSE home)
                                     \o <<"v">>
                                     \o IntToStr(IF away >= home THEN home ELSE away)
                 /\ call_result[1] = situationcode_to_strength(swapped)

\* C16 witness: 0641, six away skaters with the goaltender pulled against
\* four home skaters, is 5v4
C16_Witness ==
    /\ call_result = Some(<<"5", "v", "4">>)
    /\ call_args[1].code = <<"0", "6", "4", "1">>

\* one instant is before another
Before(a, b) == a[1] < b[1] \/ (a[1] = b[1] /\ a[2] < b[2])

\* C19: over the instants of the played periods, period-end instant and
\* overtime included, an earlier instant has a smaller game-second (so two
\* instants never share one), in the event scan as in the shift processor,
\* and the inverse conversion gives the instant back.
C19_GameSecondInjectiveAndInvertible ==
    call_result # None =>
        LET a == call_args[1]
            r == call_result[1]
        IN  /\ Before(a.first, a.second) => r.game_seconds[1] < r.game_seconds[2]
            /\ Before(a.first, a.second)
                  => r.game_seconds_onice[1] < r.game_seconds_onice[2]
            /\ r.period_time[1] = a.first
            /\ r.period_time[2] = a.second

\* ------------------------------------------ penalties without a duration
\* the ledger entries of penalties called without a duration
NoDurationLedgered ==
    {k \in DOMAIN tracker.active_penalties :
        tracker.active_penalties[k].playerId = NoDurationPlayerId}

\* how many of a team's penalties with a duration are still running at the
\* time of the event the scan is at
TimedActive(team_id) ==
    Cardinality({k \in DOMAIN tracker.active_penalties :
        LET p == tracker.active_penalties[k]
        IN  /\ p.teamId = team_id
            /\ p.active
            /\ p.duration > 0
            /\ p.expiresAt > EventGameSeconds(plays[i])})

\* the situation codes the step derives from the ledger count no penalty
\* that was called without a duration
DerivedCodesCountTimedOnly ==
    \A n \in (Len(timeline) + 1)..Len(timeline') :
        timeline'[n].isSynthetic =>
            timeline'[n].situationCode_after =
                calculate_situation_code(TimedActive(home_team.id),
                                         TimedActive(away_team.id), TRUE, TRUE)

\* a penalty without a duration is ledgered with duration 0 and expires at
\* the game-second it starts
NoDurationExpiresAtStart ==
    \A k \in NoDurationLedgered :
        /\ tracker.active_penalties[k].duration = 0
        /\ tracker.active_penalties[k].expiresAt = tracker.active_penalties[k].startTime

\* the penalties with a duration that a resolution tracks are those it
\* would track had the penalties without a duration not been called
TimedTrackedAsIfAlone ==
    resolution # None =>
        LET timed(ps) == SelectSeq(ps, LAMBDA p : p.duration # 0)
        IN  timed(resolution[1].penalties_to_track) =
                coincidental_resolution(timed(resolution[1].all_penalties),
                                        home_team.id)

\* a penalty without a duration counts as a penalty of its type in the
\* resolution: outside Rule 19.1 the home minors tracked are those called
\* in excess of all the away minors called, the ones without a duration
\* included
NoDurationCancelsLikeAnyOther ==
    resolution # None =>
        LET all == resolution[1].all_penalties
            tracked == resolution[1].penalties_to_track
        IN  ~OneMinorEach(all) =>
                NCalled(tracked, home_team.id, "MIN") =
                    Max2(0, NCalled(all, home_team.id, "MIN")
                              - NCalled(all, away_team.id, "MIN"))

C29_TimelineInGameTimeOrder ==
    \A n \in 1..(Len(timeline) - 1) :
        timeline[n].secondsElapsedGame <= timeline[n + 1].secondsElapsedGame

\* ------------------------------------- penalties released by a goal
\* a ledgered penalty that a goal released: it is inactive and its
\* expiration was never logged
ReleasedByGoal(k) ==
    ~Ledger[k].active /\ ~Ledger[k].expiration_logged

\* the synthetic entries of a log for one ledgered penalty: those of its
\* event that are stamped at or after the game-second it started
SyntheticEntriesFor(log, k) ==
    {n \in DOMAIN log :
        /\ log[n].isSynthetic
        /\ log[n].penaltyExpiration[1].originalEventId = Ledger[k].eventId
        /\ log[n].secondsElapsedGame >= Ledger[k].startTime}

\* the step releases a penalty: the event is a goal and a ledger entry that
\* was active before its expiration time is inactive afterwards
GoalReleases(k) ==
    /\ i <= Len(plays)
    /\ plays[i].typeDescKey = "goal"
    /\ k \in DOMAIN Ledger
    /\ Ledger[k].active
    /\ Ledger[k].expiresAt > EventGameSeconds(plays[i])
    /\ ~tracker'.active_penalties[k].active

\* a penalty that the step releases has no synthetic entry after the step,
\* and is marked as ReleasedByGoal describes
ReleaseLogsNothing ==
    \A k \in DOMAIN Ledger :
        GoalReleases(k) =>
            /\ ~tracker'.active_penalties[k].expiration_logged
            /\ SyntheticEntriesFor(timeline', k) = {}

\* every synthetic entry the step appends is that of a ledgered penalty
\* that was active before the step and whose expiration time, the entry's
\* game-second, is not after the event the scan is at
NewSyntheticWereActive ==
    \A n \in (Len(timeline) + 1)..Len(timeline') :
        timeline'[n].isSynthetic =>
            \E k \in DOMAIN Ledger :
                /\ Ledger[k].active
                /\ Ledger[k].eventId = timeline'[n].penaltyExpiration[1].originalEventId
                /\ Ledger[k].expiresAt = timeline'[n].secondsElapsedGame
                /\ Ledger[k].expiresAt <= EventGameSeconds(plays[i])

\* C30: a penalty that a goal released early never has a synthetic
\* penalty-expired entry, neither at the goal's game-second nor at its
\* original expiration time; synthetic entries are produced only for
\* penalties that were still active when their expiration time was reached.
C30_ReleasedPenaltyNeverExpires ==
    /\ [](\A k \in DOMAIN Ledger :
            ReleasedByGoal(k) => SyntheticEntriesFor(timeline, k) = {})
    /\ [][ReleaseLogsNothing /\ NewSyntheticWereActive]_vars

\* C30 witness: the scan is over; a minor was released by a goal, the scan
\* went past its original expiration time and logged an event there, and
\* the timeline has no synthetic entry.
C30_Witness ==
    /\ i > Len(plays)
    /\ \E k \in DOMAIN Ledger :
          /\ ReleasedByGoal(k)
          /\ \E g \in DOMAIN plays : plays[g].typeDescKey = "goal"
          /\ \E n \in DOMAIN timeline :
                /\ ~timeline[n].isSynthetic
                /\ timeline[n].secondsElapsedGame >= Ledger[k].expiresAt
    /\ \A n \in DOMAIN timeline : ~timeline[n].isSynthetic

\* ====================================================================
\* Properties of the pipeline state (v2/orchestrator/state.py)
\* ====================================================================

\* the (game, stage) pairs a state has an entry for, with the entry
StageEntries(state) ==
    UNION {{<<state.games[k].game_id, s, state.games[k].stages[s]>> :
                s \in DOMAIN state.games[k].stages} : k \in DOMAIN state.games}

KnownGameIds(state) == {state.games[k].game_id : k \in DOMAIN state.games}

\* the status of a game's entry for a stage, None when there is no entry
StatusOf(state, game_id, stage_arg) ==
    IF \E e \in StageEntries(state) : e[1] = game_id /\ e[2] = stage_arg
    THEN Some((CHOOSE e \in StageEntries(state) :
                  e[1] = game_id /\ e[2] = stage_arg)[3].status)
    ELSE None

\* a call of set_game_stage makes the status it was given the status of
\* that game and stage and leaves every other entry as it was
SetLeavesOthers ==
    (call_args' # None /\ call_args'[1].method = "set_game_stage") =>
        LET a == call_args'[1]
        IN  /\ StatusOf(pipeline_state', a.game_id, a.stage) = Some(a.status)
            /\ {e \in StageEntries(pipeline_state') :
                    ~(e[1] = a.game_id /\ e[2] = a.stage)}
                 = {e \in StageEntries(pipeline_state) :
                    ~(e[1] = a.game_id /\ e[2] = a.stage)}
            /\ KnownGameIds(pipeline_state') =
                   KnownGameIds(pipeline_state) \cup {a.game_id}

\* a call of set_scheduled_date changes no stage entry
DateLeavesStages ==
    (call_args' # None /\ call_args'[1].method = "set_scheduled_date") =>
        /\ StageEntries(pipeline_state') = StageEntries(pipeline_state)
        /\ KnownGameIds(pipeline_state') =
               KnownGameIds(pipeline_state) \cup {call_args'[1].game_id}

\* what games_needing_stage returned holds each known game at most once,
\* and exactly those whose status for the stage is none, failed or skipped
NeedingIsExact ==
    (call_args # None /\ call_args[1].method = "games_needing_stage") =>
        LET result == call_result[1]
        IN  /\ \A m, n \in DOMAIN result : result[m] = result[n] => m = n
            /\ {result[n] : n \in DOMAIN result} =
                   {g \in KnownGameIds(pipeline_state) :
                       StatusOf(pipeline_state, g, call_args[1].stage)
                           \in {None, Some("failed"), Some("skipped")}}

\* C27: after any sequence of set_game_stage and set_scheduled_date calls,
\* games_needing_stage(stage) returns exactly the known games whose most
\* recent entry for the stage is absent, failed or skipped (never one whose
\* most recent status is complete), and setting one (game, stage) entry
\* leaves every other game's and stage's entry unchanged.
C27_NeedingStageIsExact ==
    /\ []NeedingIsExact
    /\ [][SetLeavesOthers /\ DateLeavesStages]_vars

\* C27 witness: games_needing_stage("timeline") was called and returned the
\* second game only, whose timeline entry failed after it was complete
\* before; the first game's timeline is complete and both have a date.
C27_Witness ==
    /\ call_args # None /\ call_args[1].method = "games_needing_stage"
    /\ call_args[1].stage = "timeline"
    /\ call_result = Some(<<"2025020002">>)
    /\ Len(pipeline_state.games) = 2
    /\ pipeline_state.games[1].game_id = "2025020001"
    /\ StatusOf(pipeline_state, "2025020001", "timeline") = Some("complete")
    /\ StatusOf(pipeline_state, "2025020002", "timeline") = Some("failed")
    /\ StatusOf(pipeline_state, "2025020002", "fetch") = Some("complete")
    /\ pipeline_state.games[2].stages["timeline"].error = Some("Empty response")
    /\ \A k \in DOMAIN pipeline_state.games :
          pipeline_state.games[k].scheduled_date # None

\* ====================================================================
\* Properties of the raw data validation (v2/orchestrator/tools/validate.py)
\* ====================================================================

\* the keys of the files of the call that are absent or of size zero
AbsentOrEmptyKeys ==
    {key \in DOMAIN call_args[1].files :
        call_args[1].files[key] \in {None, Some("")}}

\* the keys of the files of the call that have text which is no JSON
UnparseableKeys ==
    {key \in DOMAIN call_args[1].files :
        /\ key \notin AbsentOrEmptyKeys
        /\ call_args[1].files[key][1] \notin JsonDocuments}

\* C28: validate_game's status is invalid iff a present, non-empty file
\* fails to parse (even when other files are missing); otherwise it is
\* incomplete iff a file is absent or of size zero, with missing listing
\* exactly those keys; otherwise complete with empty missing and errors.
C28_ValidateGameClassifies ==
    call_result # None =>
        LET result == call_result[1]
            listed == {result.missing[k] : k \in DOMAIN result.missing}
        IN  /\ result.status = "invalid" <=> UnparseableKeys # {}
            /\ UnparseableKeys = {} =>
                  /\ result.status = "incomplete" <=> AbsentOrEmptyKeys # {}
                  /\ result.status = "incomplete" =>
                        /\ listed = AbsentOrEmptyKeys
                        /\ Len(result.missing) = Cardinality(AbsentOrEmptyKeys)
                  /\ AbsentOrEmptyKeys = {} =>
                        /\ result.status = "complete"
                        /\ result.missing = <<>>
                        /\ result.errors = <<>>

\* C28 witness: the boxscore is no JSON, the home shifts are absent and the
\* away shifts of size zero; the call returned invalid.
C28_Witness ==
    /\ call_result # None
    /\ call_result[1].status = "invalid"
    /\ UnparseableKeys = {"boxscore"}
    /\ call_args[1].files["shifts_home"] = None
    /\ call_args[1].files["shifts_away"] = Some("")
    /\ call_result[1].missing = <<"shifts_home", "shifts_away">>

====
